---- MODULE Spec2Model ----
(***************************************************************************)
(* A model of FEAScript: the FEAScriptModel object (src/src/FEAScript.js), *)
(* the structured mesh generator (src/src/mesh/meshGenerationScript.js),   *)
(* the basis functions (src/unnamed/part_006), the Gauss rule              *)
(* (src/src/methods/numericalIntegrationScript.js), the assembler          *)
(* (src/src/solvers/solidHeatTransferScript.js) and the thermal boundary   *)
(* conditions (src/src/methods/thermalBoundaryConditionsScript.js).        *)
(*                                                                         *)
(* JavaScript numbers are modelled exactly: a finite number is a triple    *)
(* <<a, b, d>> standing for (a + b*sqrt(15)) / d with d > 0 in lowest      *)
(* terms (the Gauss points need sqrt(3/5) = sqrt(15)/5); d = 0 marks a     *)
(* non-finite IEEE value (NaN or +-Infinity), which every operation of the *)
(* assembly propagates. Rounding is not modelled. JavaScript arrays are    *)
(* functions on 0..n-1, as in the source.                                  *)
(***************************************************************************)
EXTENDS Integers, Sequences, FiniteSets, TLC

(***************************************************************************)
(* Bounds of the model.                                                    *)
(***************************************************************************)
\* Largest number of elements along x drawn for a call of solve.
MaxElements == 2
\* Largest number of elements per axis drawn for the mesh generator on its
\* own.
MaxMeshElements == 3
\* Largest number of distinct boundary keys held by one model.
MaxBoundaries == 2
\* Largest maxX and maxY drawn for the mesh generator.
MaxLength == 2

(***************************************************************************)
(* JavaScript values.                                                      *)
(***************************************************************************)
Undefined == "undefined"
Null == "null"

Abs(n) == IF n < 0 THEN -n ELSE n

GCD[m \in Nat, n \in Nat] == IF n = 0 THEN m ELSE GCD[n, m % n]

\* The number (a + b*sqrt(15)) / d, d # 0, in lowest terms with d > 0.
NormBy(a, b, d, s, g) == <<(s * a) \div g, (s * b) \div g, (s * d) \div g>>
Norm(a, b, d) == NormBy(a, b, d, IF d < 0 THEN -1 ELSE 1, GCD[GCD[Abs(a), Abs(b)], Abs(d)])

NonFinite == <<0, 0, 0>>
IsFinite(x) == x[3] # 0
Num(n) == <<n, 0, 1>>
Frac(n, d) == IF d = 0 THEN NonFinite ELSE Norm(n, 0, d)
IsZero(x) == IsFinite(x) /\ x[1] = 0 /\ x[2] = 0

\* x + y over the common denominator x[3] * fx = y[3] * fy.
AddBy(x, y, fx, fy) == Norm(x[1] * fx + y[1] * fy, x[2] * fx + y[2] * fy, x[3] * fx)
Add(x, y) ==
    IF ~IsFinite(x) \/ ~IsFinite(y) THEN NonFinite
    ELSE AddBy(x, y, y[3] \div GCD[x[3], y[3]], x[3] \div GCD[x[3], y[3]])

Neg(x) == IF ~IsFinite(x) THEN NonFinite ELSE <<-x[1], -x[2], x[3]>>

Sub(x, y) == Add(x, Neg(y))

\* (xa + xb*sqrt(15)) * (ya + yb*sqrt(15)) / d
MulBy(xa, xb, ya, yb, d) == Norm(xa * ya + 15 * xb * yb, xa * yb + xb * ya, d)
\* x * y, the numerators divided by g1 and g2 first.
MulOver(x, y, g1, g2) ==
    MulBy(x[1] \div g1, x[2] \div g1, y[1] \div g2, y[2] \div g2,
          (x[3] \div g2) * (y[3] \div g1))
Mul(x, y) ==
    IF ~IsFinite(x) \/ ~IsFinite(y) THEN NonFinite
    ELSE MulOver(x, y, GCD[GCD[Abs(x[1]), Abs(x[2])], y[3]],
                       GCD[GCD[Abs(y[1]), Abs(y[2])], x[3]])

\* x / y; a division by zero gives NaN or an infinity.
Div(x, y) ==
    IF ~IsFinite(x) \/ ~IsFinite(y) \/ IsZero(y) THEN NonFinite
    ELSE Mul(x, Norm(y[3] * y[1], -(y[3] * y[2]), y[1] * y[1] - 15 * y[2] * y[2]))

\* The sign of a finite number: -1, 0 or 1.
SignOf(a, b) ==
    IF b = 0 THEN (IF a > 0 THEN 1 ELSE IF a < 0 THEN -1 ELSE 0)
    ELSE IF a = 0 THEN (IF b > 0 THEN 1 ELSE -1)
    ELSE IF a > 0 /\ b > 0 THEN 1
    ELSE IF a < 0 /\ b < 0 THEN -1
    ELSE IF a > 0 THEN (IF a * a > 15 * b * b THEN 1 ELSE -1)
    ELSE (IF 15 * b * b > a * a THEN 1 ELSE -1)
Sign(x) == SignOf(x[1], x[2])

\* Math.sqrt(3 / 5)
Sqrt3Over5 == <<0, 1, 5>>

\* A JavaScript array literal: the function on 0..n-1 of a sequence.
\* The function f itself, with its values computed once (TLC evaluates the
\* body of a function constructor again at every application otherwise).
Eager(f) == f @@ <<>>
\* The value w, once the value v is computed (TLC evaluates the arguments of
\* an operator on demand: a loop computes each iteration before the next).
After(v, w) == IF v = v THEN w ELSE w
Arr(seq) == Eager([i \in 0..(Len(seq) - 1) |-> seq[i + 1]])
ArrLen(a) == Cardinality(DOMAIN a)
EmptyArr == Arr(<<>>)
\* a[k] = v on an array: a write past the end grows the array.
ArrSet(a, k, v) ==
    LET last == IF k >= ArrLen(a) THEN k ELSE ArrLen(a) - 1
    IN  Eager([i \in 0..last |-> IF i = k THEN v
                                 ELSE IF i \in DOMAIN a THEN a[i] ELSE Undefined])
ArrPush(a, v) == ArrSet(a, ArrLen(a), v)

\* A variant of getGaussPointsAndWeights with the weights 5/9, 8/9, 5/9 of
\* the rule on [-1, 1].
getGaussPointsAndWeightsUnscaled(elementOrder) ==
    IF elementOrder = "linear"
    THEN [gaussPoints  |-> Arr(<<Frac(1, 2)>>),
          gaussWeights |-> Arr(<<Num(1)>>)]
    ELSE IF elementOrder = "quadratic"
    THEN [gaussPoints  |-> Arr(<<Div(Sub(Num(1), Sqrt3Over5), Num(2)),
                                 Frac(1, 2),
                                 Div(Add(Num(1), Sqrt3Over5), Num(2))>>),
          gaussWeights |-> Arr(<<Frac(5, 9), Frac(8, 9), Frac(5, 9)>>)]
    ELSE [gaussPoints |-> EmptyArr, gaussWeights |-> EmptyArr]

(***************************************************************************)
(* numericalIntegration.getGaussPointsAndWeights                           *)
(***************************************************************************)
getGaussPointsAndWeights(elementOrder) ==
    IF elementOrder = "linear"
    THEN [gaussPoints  |-> Arr(<<Frac(1, 2)>>),
          gaussWeights |-> Arr(<<Num(1)>>)]
    ELSE IF elementOrder = "quadratic"
    THEN [gaussPoints  |-> Arr(<<Div(Sub(Num(1), Sqrt3Over5), Num(2)),
                                 Frac(1, 2),
                                 Div(Add(Num(1), Sqrt3Over5), Num(2))>>),
          gaussWeights |-> Arr(<<Frac(5, 18), Frac(8, 18), Frac(5, 18)>>)]
    ELSE [gaussPoints |-> EmptyArr, gaussWeights |-> EmptyArr]

(***************************************************************************)
(* basisFunctions.getBasisFunctions                                        *)
(***************************************************************************)
Sq(c) == Mul(c, c)
\* The linear Lagrange polynomials on [0,1] and their derivatives.
lin_l1(c) == Sub(Num(1), c)
lin_l2(c) == c
lin_dl1 == Num(-1)
lin_dl2 == Num(1)
\* The quadratic Lagrange polynomials on [0,1] and their derivatives.
\* A variant of quad_l1 without its constant term.
quad_l1NoConstant(c) == Sub(Mul(Num(2), Sq(c)), Mul(Num(3), c))
quad_l1(c) == Add(Sub(Mul(Num(2), Sq(c)), Mul(Num(3), c)), Num(1))
quad_l2(c) == Add(Mul(Num(-4), Sq(c)), Mul(Num(4), c))
quad_l3(c) == Sub(Mul(Num(2), Sq(c)), c)
quad_dl1(c) == Sub(Mul(Num(4), c), Num(3))
quad_dl2(c) == Add(Mul(Num(-8), c), Num(4))
quad_dl3(c) == Sub(Mul(Num(4), c), Num(1))

\* A variant of TensorBasis whose entry a + n * b is the product of
\* polynomial a at ksi and polynomial b at eta.
TensorBasisKsiFirst(lKsi, lEta, dlKsi, dlEta) ==
    [basisFunction         |->
        Eager([i \in 0..(Len(lKsi) * Len(lEta) - 1) |->
            Mul(lKsi[(i % Len(lKsi)) + 1], lEta[(i \div Len(lKsi)) + 1])]),
     basisFunctionDerivKsi |->
        Eager([i \in 0..(Len(lKsi) * Len(lEta) - 1) |->
            Mul(dlKsi[(i % Len(lKsi)) + 1], lEta[(i \div Len(lKsi)) + 1])]),
     basisFunctionDerivEta |->
        Eager([i \in 0..(Len(lKsi) * Len(lEta) - 1) |->
            Mul(lKsi[(i % Len(lKsi)) + 1], dlEta[(i \div Len(lKsi)) + 1])])]

\* The two-dimensional basis functions and their derivatives from the
\* values l and dl of the Lagrange polynomials and of their derivatives at ksi
\* and at eta: entry n * a + b is the product of polynomial a at ksi and
\* polynomial b at eta (n polynomials, a and b counted from 0).
TensorBasis(lKsi, lEta, dlKsi, dlEta) ==
    [basisFunction         |->
        Eager([i \in 0..(Len(lKsi) * Len(lEta) - 1) |->
            Mul(lKsi[(i \div Len(lEta)) + 1], lEta[(i % Len(lEta)) + 1])]),
     basisFunctionDerivKsi |->
        Eager([i \in 0..(Len(lKsi) * Len(lEta) - 1) |->
            Mul(dlKsi[(i \div Len(lEta)) + 1], lEta[(i % Len(lEta)) + 1])]),
     basisFunctionDerivEta |->
        Eager([i \in 0..(Len(lKsi) * Len(lEta) - 1) |->
            Mul(lKsi[(i \div Len(lEta)) + 1], dlEta[(i % Len(lEta)) + 1])])]

\* eta = Null stands for a call without the second coordinate.
getBasisFunctions(meshDimension, elementOrder, ksi, eta) ==
    IF meshDimension = "1D" THEN
        IF elementOrder = "linear" THEN
            [basisFunction         |-> Arr(<<Sub(Num(1), ksi), ksi>>),
             basisFunctionDerivKsi |-> Arr(<<Num(-1), Num(1)>>),
             basisFunctionDerivEta |-> EmptyArr]
        ELSE IF elementOrder = "quadratic" THEN
            [basisFunction         |->
                Arr(<<Add(Sub(Num(1), Mul(Num(3), ksi)), Mul(Num(2), Sq(ksi))),
                      Sub(Mul(Num(4), ksi), Mul(Num(4), Sq(ksi))),
                      Add(Neg(ksi), Mul(Num(2), Sq(ksi)))>>),
             basisFunctionDerivKsi |->
                Arr(<<Add(Num(-3), Mul(Num(4), ksi)),
                      Sub(Num(4), Mul(Num(8), ksi)),
                      Add(Num(-1), Mul(Num(4), ksi))>>),
             basisFunctionDerivEta |-> EmptyArr]
        ELSE [basisFunction |-> EmptyArr, basisFunctionDerivKsi |-> EmptyArr,
              basisFunctionDerivEta |-> EmptyArr]
    ELSE IF meshDimension = "2D" THEN
        IF eta = Null THEN Undefined
        ELSE IF elementOrder = "linear" THEN
            TensorBasis(<<lin_l1(ksi), lin_l2(ksi)>>, <<lin_l1(eta), lin_l2(eta)>>,
                        <<lin_dl1, lin_dl2>>, <<lin_dl1, lin_dl2>>)
        ELSE IF elementOrder = "quadratic" THEN
            TensorBasis(<<quad_l1(ksi), quad_l2(ksi), quad_l3(ksi)>>,
                        <<quad_l1(eta), quad_l2(eta), quad_l3(eta)>>,
                        <<quad_dl1(ksi), quad_dl2(ksi), quad_dl3(ksi)>>,
                        <<quad_dl1(eta), quad_dl2(eta), quad_dl3(eta)>>)
        ELSE [basisFunction |-> EmptyArr, basisFunctionDerivKsi |-> EmptyArr,
              basisFunctionDerivEta |-> EmptyArr]
    ELSE [basisFunction |-> EmptyArr, basisFunctionDerivKsi |-> EmptyArr,
          basisFunctionDerivEta |-> EmptyArr]

(***************************************************************************)
(* JavaScript objects are records; a property the object does not have is  *)
(* a field the record does not have.                                       *)
(***************************************************************************)
Has(obj, name) == name \in DOMAIN obj
\* A destructured property with a default value (default used when undefined).
Field(obj, name, default) == IF Has(obj, name) THEN obj[name] ELSE default
\* ToNumber of an integer property; undefined gives NaN.
NumField(obj, name) == IF Has(obj, name) THEN Num(obj[name]) ELSE NonFinite
\* The number of iterations of for (i = from; i < bound; i++), bound a number.
LoopEnd(bound) == IF IsFinite(bound) /\ bound[2] = 0 /\ bound[3] = 1 THEN bound[1] ELSE 0

(***************************************************************************)
(* meshGeneration                                                          *)
(***************************************************************************)
\* The constructor: the configuration with its defaults applied.
meshGeneration(config) ==
    [numElementsX  |-> NumField(config, "numElementsX"),
     numElementsY  |-> IF Has(config, "numElementsY") THEN Num(config.numElementsY) ELSE Num(1),
     maxX          |-> NumField(config, "maxX"),
     maxY          |-> IF Has(config, "maxY") THEN Num(config.maxY) ELSE Num(0),
     meshDimension |-> Field(config, "meshDimension", "2D"),
     meshFile      |-> Field(config, "meshFile", Null),
     elementOrder  |-> Field(config, "elementOrder", "linear")]

\* A variant of findBoundaryStep whose test of the top boundary compares
\* elementIndexY with numElementsY.
findBoundaryStepTopOffByOne(this, boundaryElements, elementIndexX, elementIndexY) ==
    LET numX == LoopEnd(this.numElementsX)
        numY == LoopEnd(this.numElementsY)
        elementIndex == elementIndexX * numY + elementIndexY
        b0 == IF elementIndexY = 0
              THEN [boundaryElements EXCEPT ![0] = ArrPush(@, <<elementIndex, 0>>)]
              ELSE boundaryElements
        b2 == IF elementIndexY = numY
              THEN [b0 EXCEPT ![2] = ArrPush(@, <<elementIndex, 2>>)]
              ELSE b0
        b1 == IF elementIndexX = 0
              THEN [b2 EXCEPT ![1] = ArrPush(@, <<elementIndex, 1>>)]
              ELSE b2
        b3 == IF elementIndexX = numX - 1
              THEN [b1 EXCEPT ![3] = ArrPush(@, <<elementIndex, 3>>)]
              ELSE b1
    IN  After(boundaryElements, IF this.elementOrder = "quadratic" THEN b3 ELSE boundaryElements)

\* findBoundaryElements: the four lists of <<elementIndex, side>> pairs.
\* One iteration of the loops of findBoundaryElements.
findBoundaryStep(this, boundaryElements, elementIndexX, elementIndexY) ==
    LET numX == LoopEnd(this.numElementsX)
        numY == LoopEnd(this.numElementsY)
        elementIndex == elementIndexX * numY + elementIndexY
        b0 == IF elementIndexY = 0
              THEN [boundaryElements EXCEPT ![0] = ArrPush(@, <<elementIndex, 0>>)]
              ELSE boundaryElements
        b2 == IF elementIndexY = numY - 1
              THEN [b0 EXCEPT ![2] = ArrPush(@, <<elementIndex, 2>>)]
              ELSE b0
        b1 == IF elementIndexX = 0
              THEN [b2 EXCEPT ![1] = ArrPush(@, <<elementIndex, 1>>)]
              ELSE b2
        b3 == IF elementIndexX = numX - 1
              THEN [b1 EXCEPT ![3] = ArrPush(@, <<elementIndex, 3>>)]
              ELSE b1
    IN  After(boundaryElements, IF this.elementOrder = "quadratic" THEN b3 ELSE boundaryElements)

maxSides == 4

\* The loops over elementIndexX (outer) and elementIndexY (inner) are one
\* loop over k = elementIndexX * numElementsY + elementIndexY: the lists
\* after the first k iterations.
RECURSIVE findBoundaryLoop(_, _, _)
findBoundaryLoop(this, boundaryElements, k) ==
    IF k = 0 THEN boundaryElements
    ELSE findBoundaryStep(this, findBoundaryLoop(this, boundaryElements, k - 1),
                          (k - 1) \div LoopEnd(this.numElementsY),
                          (k - 1) % LoopEnd(this.numElementsY))

findBoundaryElements(this) ==
    IF this.meshDimension = "1D"
    THEN Eager([sideIndex \in 0..(maxSides - 1) |-> EmptyArr])
    ELSE IF this.meshDimension = "2D"
    THEN findBoundaryLoop(this, Eager([sideIndex \in 0..(maxSides - 1) |-> EmptyArr]),
                          LoopEnd(this.numElementsX) * LoopEnd(this.numElementsY))
    ELSE Eager([sideIndex \in 0..(maxSides - 1) |-> EmptyArr])

\* A variant of nopTriple without the third assignment of a nodeIndex.
nopTripleTwoAssignments(row, totalNodesY, elementIndexX, elementIndexY, nodeIndex) ==
    LET l  == 3 * nodeIndex - 2
        r1 == ArrSet(row, l - 1,
                     totalNodesY * (2 * elementIndexX + nodeIndex - 3) + 2 * elementIndexY - 1)
    IN  ArrSet(r1, l, r1[l - 1] + 1)

\* A variant of nopTriple in which an element does not share its first
\* column of nodes with the element before it.
nopTripleOwnColumns(row, totalNodesY, elementIndexX, elementIndexY, nodeIndex) ==
    LET l  == 3 * nodeIndex - 2
        r1 == ArrSet(row, l - 1,
                     totalNodesY * (3 * elementIndexX + nodeIndex - 4) + 2 * elementIndexY - 1)
        r2 == ArrSet(r1, l, r1[l - 1] + 1)
    IN  ArrSet(r2, l + 1, r2[l - 1] + 2)

\* generateNodalNumbering, the three assignments of one nodeIndex.
nopTriple(row, totalNodesY, elementIndexX, elementIndexY, nodeIndex) ==
    LET l  == 3 * nodeIndex - 2
        r1 == ArrSet(row, l - 1,
                     totalNodesY * (2 * elementIndexX + nodeIndex - 3) + 2 * elementIndexY - 1)
        r2 == ArrSet(r1, l, r1[l - 1] + 1)
    IN  ArrSet(r2, l + 1, r2[l - 1] + 2)

\* One iteration of the loops over elementIndexX and elementIndexY.
nopFillStep(nop, elementIndex, totalNodesY, elementIndexX, elementIndexY) ==
    After(nop, [nop EXCEPT ![elementIndex] =
        nopTriple(nopTriple(nopTriple(nop[elementIndex],
            totalNodesY, elementIndexX, elementIndexY, 1),
            totalNodesY, elementIndexX, elementIndexY, 2),
            totalNodesY, elementIndexX, elementIndexY, 3)])

\* The loops over elementIndexX (outer) and elementIndexY (inner), which
\* increment elementIndex, are one loop over k: nop after the first k
\* iterations.
RECURSIVE nopFillLoop(_, _, _, _)
nopFillLoop(nop, numElementsY, totalNodesY, k) ==
    IF k = 0 THEN nop
    ELSE nopFillStep(nopFillLoop(nop, numElementsY, totalNodesY, k - 1), k - 1, totalNodesY,
                     ((k - 1) \div numElementsY) + 1, ((k - 1) % numElementsY) + 1)

\* The arguments are numbers (NaN included) or a string (the 1D call passes
\* its element order in the place of totalNodesX).
generateNodalNumbering(this, numElementsX, numElementsY, totalNodesX, totalNodesY, elementOrder) ==
    IF this.meshDimension = "1D" THEN EmptyArr
    ELSE IF this.meshDimension = "2D" THEN
        IF elementOrder = "linear" THEN EmptyArr
        ELSE IF elementOrder = "quadratic" THEN
            nopFillLoop(Eager([elementIndex \in 0..(LoopEnd(Mul(numElementsX, numElementsY)) - 1) |->
                                Eager([nodeIndex \in 0..8 |-> 0])]),
                        LoopEnd(numElementsY), LoopEnd(totalNodesY),
                        LoopEnd(numElementsX) * LoopEnd(numElementsY))
        ELSE EmptyArr
    ELSE EmptyArr

\* generateMeshFromGeometry, 1D: nodesXCoordinates[nodeIndex] = previous + deltaX.
nodes1DStep(nodesXCoordinates, nodeIndex, deltaX) ==
    After(nodesXCoordinates,
          ArrSet(nodesXCoordinates, nodeIndex, Add(nodesXCoordinates[nodeIndex - 1], deltaX)))
\* The array after the iterations 1..nodeIndex of the loop.
RECURSIVE nodes1DLoop(_, _, _)
nodes1DLoop(nodesXCoordinates, nodeIndex, deltaX) ==
    IF nodeIndex <= 0 THEN nodesXCoordinates
    ELSE nodes1DStep(nodes1DLoop(nodesXCoordinates, nodeIndex - 1, deltaX), nodeIndex, deltaX)

\* generateMeshFromGeometry, 2D: the inner loop over nodeIndexY of one column
\* whose first node nnode is already set.
nodesColumnStep(coords, nnode, nodeIndexY, deltaY) ==
    After(coords,
          [x |-> ArrSet(coords.x, nnode + nodeIndexY, coords.x[nnode]),
           y |-> ArrSet(coords.y, nnode + nodeIndexY,
                        Add(coords.y[nnode], Div(Mul(Num(nodeIndexY), deltaY), Num(2))))])
\* The coordinates after the iterations 1..nodeIndexY of the loop.
RECURSIVE nodesColumnLoop(_, _, _, _)
nodesColumnLoop(coords, nnode, nodeIndexY, deltaY) ==
    IF nodeIndexY <= 0 THEN coords
    ELSE nodesColumnStep(nodesColumnLoop(coords, nnode, nodeIndexY - 1, deltaY),
                         nnode, nodeIndexY, deltaY)

\* A variant of nodesRowStep that advances a column by deltaX, not by
\* deltaX / 2.
nodesRowStepWholeDelta(coords, nodeIndexX, totalNodesY, deltaX, deltaY) ==
    After(coords,
          nodesColumnLoop([x |-> ArrSet(coords.x, nodeIndexX * totalNodesY,
                                        Add(coords.x[0], Mul(Num(nodeIndexX), deltaX))),
                           y |-> ArrSet(coords.y, nodeIndexX * totalNodesY, coords.y[0])],
                          nodeIndexX * totalNodesY, totalNodesY - 1, deltaY))

\* generateMeshFromGeometry, 2D: one iteration of the loop over nodeIndexX:
\* the two assignments at nnode, then the loop over nodeIndexY.
nodesRowStep(coords, nodeIndexX, totalNodesY, deltaX, deltaY) ==
    After(coords,
          nodesColumnLoop([x |-> ArrSet(coords.x, nodeIndexX * totalNodesY,
                                        Add(coords.x[0], Div(Mul(Num(nodeIndexX), deltaX), Num(2)))),
                           y |-> ArrSet(coords.y, nodeIndexX * totalNodesY, coords.y[0])],
                          nodeIndexX * totalNodesY, totalNodesY - 1, deltaY))
\* The coordinates after the iterations 1..nodeIndexX of the loop.
RECURSIVE nodesRowLoop(_, _, _, _, _)
nodesRowLoop(coords, nodeIndexX, totalNodesY, deltaX, deltaY) ==
    IF nodeIndexX <= 0 THEN coords
    ELSE nodesRowStep(nodesRowLoop(coords, nodeIndexX - 1, totalNodesY, deltaX, deltaY),
                      nodeIndexX, totalNodesY, deltaX, deltaY)

xStart == 0
yStart == 0

\* The object generateMeshFromGeometry returns for a 1D mesh.
Mesh1D(this, totalNodesX, deltaX) ==
    [nodesXCoordinates |->
        nodes1DLoop(Arr(<<Num(xStart)>>), LoopEnd(totalNodesX) - 1, deltaX),
     totalNodesX       |-> totalNodesX,
     nodalNumbering    |->
        generateNodalNumbering(this, this.numElementsX, totalNodesX,
                               this.elementOrder, Undefined, Undefined),
     boundaryElements  |-> findBoundaryElements(this)]

\* The object generateMeshFromGeometry returns for the other meshes.
Mesh2DOf(this, totalNodesX, totalNodesY, coords) ==
    [nodesXCoordinates |-> coords.x,
     nodesYCoordinates |-> coords.y,
     totalNodesX       |-> totalNodesX,
     totalNodesY       |-> totalNodesY,
     nodalNumbering    |->
        generateNodalNumbering(this, this.numElementsX, this.numElementsY,
                               totalNodesX, totalNodesY, this.elementOrder),
     boundaryElements  |-> findBoundaryElements(this)]
\* The loops over the nodes: column 0, then the columns 1..totalNodesX-1.
Mesh2D(this, totalNodesX, totalNodesY, deltaX, deltaY) ==
    Mesh2DOf(this, totalNodesX, totalNodesY,
        nodesRowLoop(nodesColumnLoop([x |-> Arr(<<Num(xStart)>>), y |-> Arr(<<Num(yStart)>>)],
                                     0, LoopEnd(totalNodesY) - 1, deltaY),
                     LoopEnd(totalNodesX) - 1, LoopEnd(totalNodesY), deltaX, deltaY))

generateMeshFromGeometry(this) ==
    IF this.meshDimension = "1D" THEN
        Mesh1D(this, Add(Mul(Num(2), this.numElementsX), Num(1)),
               Div(Sub(this.maxX, Num(xStart)), this.numElementsX))
    ELSE
        Mesh2D(this, Add(Mul(Num(2), this.numElementsX), Num(1)),
               Add(Mul(Num(2), this.numElementsY), Num(1)),
               Div(Sub(this.maxX, Num(xStart)), this.numElementsX),
               Div(Sub(this.maxY, Num(yStart)), this.numElementsY))

\* generateMesh without a mesh file (the assembler passes none).
generateMesh(this) == generateMeshFromGeometry(this)

(***************************************************************************)
(* assembleSolidHeatTransferMat: the element assembly                      *)
(***************************************************************************)
\* The sum 0 + seq[1] + ... + seq[n], added in this order.
RECURSIVE SumFirst(_, _)
SumFirst(seq, n) == IF n = 0 THEN Num(0) ELSE Add(SumFirst(seq, n - 1), seq[n])
SumNums(seq) == SumFirst(seq, Len(seq))

\* sum over the local nodes, in order, of coordinates[local number] * weights[local node]
Interpolate(coordinates, localNodalNumbers, weights, numNodes) ==
    SumNums(Eager([k \in 1..numNodes |->
                Mul(coordinates[localNodalNumbers[k - 1]], weights[k - 1])]))

\* The local nodes of an element, in order, whose global number is g.
LocalsOf(localNodalNumbers, g) ==
    LET S == {m \in DOMAIN localNodalNumbers : localNodalNumbers[m] = g}
    IN  Eager([i \in 1..Cardinality(S) |->
                CHOOSE m \in S : Cardinality({k \in S : k < m}) = i - 1])

\* The derivatives of the basis functions with respect to x and y, from the
\* entries of the Jacobian of the mapping and its determinant.
MappingRecord(bf, numNodes, ksiDerivX, etaDerivX, ksiDerivY, etaDerivY, determinant) ==
    [ksiDerivX   |-> ksiDerivX,
     etaDerivX   |-> etaDerivX,
     ksiDerivY   |-> ksiDerivY,
     etaDerivY   |-> etaDerivY,
     detJacobian |-> IF numNodes = 0 THEN Num(0) ELSE determinant,
     basisFunctionDerivX |->
        Eager([n \in 0..(numNodes - 1) |->
            Div(Sub(Mul(etaDerivY, bf.basisFunctionDerivKsi[n]),
                    Mul(ksiDerivY, bf.basisFunctionDerivEta[n])), determinant)]),
     basisFunctionDerivY |->
        Eager([n \in 0..(numNodes - 1) |->
            Div(Sub(Mul(ksiDerivX, bf.basisFunctionDerivEta[n]),
                    Mul(etaDerivX, bf.basisFunctionDerivKsi[n])), determinant)])]
\* detJacobian = ksiDerivX * etaDerivY - etaDerivX * ksiDerivY
MappingDeterminant(bf, numNodes, ksiDerivX, etaDerivX, ksiDerivY, etaDerivY) ==
    MappingRecord(bf, numNodes, ksiDerivX, etaDerivX, ksiDerivY, etaDerivY,
                  Sub(Mul(ksiDerivX, etaDerivY), Mul(etaDerivX, ksiDerivY)))
\* The isoparametric mapping at one Gauss point and the derivatives of the
\* basis functions with respect to x and y.
IsoparametricMapping(nodesXCoordinates, nodesYCoordinates, localNodalNumbers, bf, numNodes) ==
    MappingDeterminant(bf, numNodes,
        Interpolate(nodesXCoordinates, localNodalNumbers, bf.basisFunctionDerivKsi, numNodes),
        Interpolate(nodesXCoordinates, localNodalNumbers, bf.basisFunctionDerivEta, numNodes),
        Interpolate(nodesYCoordinates, localNodalNumbers, bf.basisFunctionDerivKsi, numNodes),
        Interpolate(nodesYCoordinates, localNodalNumbers, bf.basisFunctionDerivEta, numNodes))

\* The value added to residualVector[globalNodeIndex1] for local node m.
ResidualTerm(w1, w2, map, bf, m) ==
    Mul(Mul(Mul(w1, w2), map.detJacobian), bf.basisFunction[m])

\* A variant of JacobianTerm whose second product takes the x-derivative of
\* the basis function of local node n.
JacobianTermMixedDerivatives(w1, w2, map, m, n) ==
    Mul(Mul(Mul(Neg(w1), w2), map.detJacobian),
        Add(Mul(map.basisFunctionDerivX[m], map.basisFunctionDerivX[n]),
            Mul(map.basisFunctionDerivY[m], map.basisFunctionDerivX[n])))

\* The value added to jacobianMatrix[globalNodeIndex1][globalNodeIndex2] for
\* the local nodes m and n.
JacobianTerm(w1, w2, map, m, n) ==
    Mul(Mul(Mul(Neg(w1), w2), map.detJacobian),
        Add(Mul(map.basisFunctionDerivX[m], map.basisFunctionDerivX[n]),
            Mul(map.basisFunctionDerivY[m], map.basisFunctionDerivY[n])))

\* The accumulation loops of one Gauss point on the system sys.
\* jacobianContributions[g1][g2] counts the executions of
\* jacobianMatrix[g1][g2] += ... (a history of the loops, not a value of
\* the program).
AccumulateGaussPoint(sys, localNodalNumbers, numNodes, w1, w2, map, bf) ==
    [residualVector |->
        Eager([g \in DOMAIN sys.residualVector |->
            LET ms == LocalsOf(localNodalNumbers, g)
            IN  IF ms = <<>> THEN sys.residualVector[g]
                ELSE Add(sys.residualVector[g],
                         SumNums(Eager([i \in 1..Len(ms) |->
                                    ResidualTerm(w1, w2, map, bf, ms[i])])))]),
     jacobianMatrix |->
        Eager([g1 \in DOMAIN sys.jacobianMatrix |->
            LET ms == LocalsOf(localNodalNumbers, g1)
            IN  IF ms = <<>> THEN sys.jacobianMatrix[g1]
                ELSE Eager([g2 \in DOMAIN sys.jacobianMatrix[g1] |->
                        LET ns == LocalsOf(localNodalNumbers, g2)
                        IN  IF ns = <<>> THEN sys.jacobianMatrix[g1][g2]
                            ELSE Add(sys.jacobianMatrix[g1][g2],
                                     SumNums(Eager([i \in 1..(Len(ms) * Len(ns)) |->
                                        JacobianTerm(w1, w2, map,
                                                     ms[((i - 1) \div Len(ns)) + 1],
                                                     ns[((i - 1) % Len(ns)) + 1])])))])]),
     detJacobian |-> map.detJacobian,
     jacobianContributions |->
        Eager([g1 \in DOMAIN sys.jacobianContributions |->
            Eager([g2 \in DOMAIN sys.jacobianContributions[g1] |->
                sys.jacobianContributions[g1][g2]
                    + Len(LocalsOf(localNodalNumbers, g1)) * Len(LocalsOf(localNodalNumbers, g2))])])]

\* One Gauss point of one element, its basis functions bf computed.
GaussPoint(sys, mesh, localNodalNumbers, numNodes, w1, w2, bf) ==
    AccumulateGaussPoint(sys, localNodalNumbers, numNodes, w1, w2,
        IsoparametricMapping(mesh.nodesXCoordinates, mesh.nodesYCoordinates,
                             localNodalNumbers, bf, numNodes), bf)
\* One Gauss point (gaussPointIndex1, gaussPointIndex2) of one element.
GaussStep(sys, mesh, basis, gauss, localNodalNumbers, numNodes, gaussPointIndex1, gaussPointIndex2) ==
    After(sys, GaussPoint(sys, mesh, localNodalNumbers, numNodes,
                          gauss.gaussWeights[gaussPointIndex1],
                          gauss.gaussWeights[gaussPointIndex2],
                          getBasisFunctions(basis.meshDimension, basis.elementOrder,
                                            gauss.gaussPoints[gaussPointIndex1],
                                            gauss.gaussPoints[gaussPointIndex2])))
\* The loops over gaussPointIndex1 (outer) and gaussPointIndex2 (inner) are
\* one loop: the system after its first g iterations.
RECURSIVE GaussLoop(_, _, _, _, _, _, _)
GaussLoop(sys, mesh, basis, gauss, localNodalNumbers, numNodes, g) ==
    IF g = 0 THEN sys
    ELSE GaussStep(GaussLoop(sys, mesh, basis, gauss, localNodalNumbers, numNodes, g - 1),
                   mesh, basis, gauss, localNodalNumbers, numNodes,
                   (g - 1) \div ArrLen(gauss.gaussPoints), (g - 1) % ArrLen(gauss.gaussPoints))

\* A variant of AssembleElement that takes the local nodal numbers of
\* every element from the first row of NOP.
AssembleElementFirstRow(sys, mesh, basis, gauss, numNodes, elementIndex) ==
    After(sys, GaussLoop(sys, mesh, basis, gauss,
                         Eager([localNodeIndex \in 0..(numNodes - 1) |->
                                  mesh.nodalNumbering[0][localNodeIndex] - 1]),
                         numNodes, ArrLen(gauss.gaussPoints) * ArrLen(gauss.gaussPoints)))

\* One iteration of the loop over the elements.
AssembleElement(sys, mesh, basis, gauss, numNodes, elementIndex) ==
    After(sys, GaussLoop(sys, mesh, basis, gauss,
                         Eager([localNodeIndex \in 0..(numNodes - 1) |->
                                  mesh.nodalNumbering[elementIndex][localNodeIndex] - 1]),
                         numNodes, ArrLen(gauss.gaussPoints) * ArrLen(gauss.gaussPoints)))

\* The system after the first k iterations of the loop over the elements.
RECURSIVE ElementLoop(_, _, _, _, _, _)
ElementLoop(sys, mesh, basis, gauss, numNodes, k) ==
    IF k = 0 THEN sys
    ELSE AssembleElement(ElementLoop(sys, mesh, basis, gauss, numNodes, k - 1),
                         mesh, basis, gauss, numNodes, k - 1)

\* A variant of InitialSystem whose matrix starts as the identity.
InitialSystemUnitDiagonal(totalNodes) ==
    [residualVector |-> Eager([nodeIndex \in 0..(totalNodes - 1) |-> Num(0)]),
     jacobianMatrix |-> Eager([nodeIndex \in 0..(totalNodes - 1) |->
                            Eager([colIndex \in 0..(totalNodes - 1) |->
                                IF colIndex = nodeIndex THEN Num(1) ELSE Num(0)])]),
     detJacobian    |-> Undefined,
     jacobianContributions |-> Eager([nodeIndex \in 0..(totalNodes - 1) |->
                                   Eager([colIndex \in 0..(totalNodes - 1) |-> 0])])]

\* The zero-initialised system of totalNodes unknowns.
InitialSystem(totalNodes) ==
    [residualVector |-> Eager([nodeIndex \in 0..(totalNodes - 1) |-> Num(0)]),
     jacobianMatrix |-> Eager([nodeIndex \in 0..(totalNodes - 1) |->
                            Eager([colIndex \in 0..(totalNodes - 1) |-> Num(0)])]),
     detJacobian    |-> Undefined,
     jacobianContributions |-> Eager([nodeIndex \in 0..(totalNodes - 1) |->
                                   Eager([colIndex \in 0..(totalNodes - 1) |-> 0])])]

(***************************************************************************)
(* The boundary-condition object: a sequence of <<key, condition>> pairs   *)
(* in the order of Object.keys (integer-like keys ascending, then the other*)
(* keys in insertion order). A condition is the tuple of a JavaScript      *)
(* array: <<"convection", coeff, extTemp>> or <<"constantTemp", value>>.   *)
(***************************************************************************)
IndexKeys == <<"0", "1", "2", "3">>
IsIndexKey(key) == \E i \in 1..Len(IndexKeys) : IndexKeys[i] = key
\* The array index an integer-like key names.
KeyIndex(key) == (CHOOSE i \in 1..Len(IndexKeys) : IndexKeys[i] = key) - 1

ObjectKeys(obj) == [i \in 1..Len(obj) |-> obj[i][1]]
HasKey(obj, key) == \E i \in 1..Len(obj) : obj[i][1] = key
Lookup(obj, key) == obj[CHOOSE i \in 1..Len(obj) : obj[i][1] = key][2]

\* A variant of SetProperty that adds an entry whether or not the key is
\* already a property.
SetPropertyAddsEntry(obj, key, value) == Append(obj, <<key, value>>)

\* A variant of SetProperty that keeps every new key in insertion order.
SetPropertyInsertionOrder(obj, key, value) ==
    IF HasKey(obj, key)
    THEN [i \in 1..Len(obj) |-> IF obj[i][1] = key THEN <<key, value>> ELSE obj[i]]
    ELSE Append(obj, <<key, value>>)

\* obj[key] = value
SetProperty(obj, key, value) ==
    IF HasKey(obj, key)
    THEN [i \in 1..Len(obj) |-> IF obj[i][1] = key THEN <<key, value>> ELSE obj[i]]
    ELSE IF IsIndexKey(key)
    THEN LET before == SelectSeq(obj, LAMBDA p : IsIndexKey(p[1]) /\ KeyIndex(p[1]) < KeyIndex(key))
             after  == SelectSeq(obj, LAMBDA p : ~(IsIndexKey(p[1]) /\ KeyIndex(p[1]) < KeyIndex(key)))
         IN  before \o <<<<key, value>>>> \o after
    ELSE Append(obj, <<key, value>>)

(***************************************************************************)
(* ThermalBoundaryConditions                                               *)
(***************************************************************************)
ThermalBoundaryConditions(conditions, boundaryElements, nop, meshDimension, elementOrder) ==
    [boundaryConditions |-> conditions,
     boundaryElements   |-> boundaryElements,
     nop                |-> nop,
     meshDimension      |-> meshDimension,
     elementOrder       |-> elementOrder]

\* this.boundaryElements[boundaryKey] is an array (not undefined).
BoundaryListDefined(this, boundaryKey) ==
    IsIndexKey(boundaryKey) /\ KeyIndex(boundaryKey) \in DOMAIN this.boundaryElements

\* boundarySides of imposeConstantTempBoundaryConditions.
boundarySidesLinear ==
    [k \in 0..3 |-> CASE k = 0 -> <<0, 2>>
                      [] k = 1 -> <<0, 1>>
                      [] k = 2 -> <<1, 3>>
                      [] k = 3 -> <<2, 3>>]
boundarySidesQuadratic ==
    [k \in 0..3 |-> CASE k = 0 -> <<0, 3, 6>>
                      [] k = 1 -> <<0, 1, 2>>
                      [] k = 2 -> <<2, 5, 8>>
                      [] k = 3 -> <<6, 7, 8>>]

\* A variant of SetDirichletRow that leaves the other entries of the row.
SetDirichletRowKeepsRow(sys, globalNodeIndex, tempValue) ==
    [sys EXCEPT
        !.residualVector[globalNodeIndex] = tempValue,
        !.jacobianMatrix[globalNodeIndex][globalNodeIndex] = Num(1)]

\* A variant of SetDirichletRow that also zeroes the column of the node in
\* the other rows.
SetDirichletRowAndColumn(sys, globalNodeIndex, tempValue) ==
    [sys EXCEPT
        !.residualVector[globalNodeIndex] = tempValue,
        !.jacobianMatrix =
            Eager([rowIndex \in DOMAIN sys.jacobianMatrix |->
                Eager([colIndex \in DOMAIN sys.jacobianMatrix[rowIndex] |->
                    IF rowIndex = globalNodeIndex /\ colIndex = globalNodeIndex THEN Num(1)
                    ELSE IF rowIndex = globalNodeIndex \/ colIndex = globalNodeIndex THEN Num(0)
                    ELSE sys.jacobianMatrix[rowIndex][colIndex]])])]

\* A variant of SetDirichletRow that adds the value to the residual entry.
SetDirichletRowAddsValue(sys, globalNodeIndex, tempValue) ==
    [sys EXCEPT
        !.residualVector[globalNodeIndex] = Add(@, tempValue),
        !.jacobianMatrix[globalNodeIndex] =
            Eager([colIndex \in DOMAIN sys.jacobianMatrix[globalNodeIndex] |->
                IF colIndex = globalNodeIndex THEN Num(1)
                ELSE IF colIndex < ArrLen(sys.residualVector) THEN Num(0)
                ELSE sys.jacobianMatrix[globalNodeIndex][colIndex]])]

\* The three assignments that constrain one global node.
SetDirichletRow(sys, globalNodeIndex, tempValue) ==
    [sys EXCEPT
        !.residualVector[globalNodeIndex] = tempValue,
        !.jacobianMatrix[globalNodeIndex] =
            Eager([colIndex \in DOMAIN sys.jacobianMatrix[globalNodeIndex] |->
                IF colIndex = globalNodeIndex THEN Num(1)
                ELSE IF colIndex < ArrLen(sys.residualVector) THEN Num(0)
                ELSE sys.jacobianMatrix[globalNodeIndex][colIndex]])]

\* boundarySides[boundaryKey].forEach on one boundary element: the system
\* after the first i nodes.
RECURSIVE ConstantTempNodesLoop(_, _, _, _, _, _)
ConstantTempNodesLoop(sys, this, elementIndex, nodes, tempValue, i) ==
    IF i = 0 THEN sys
    ELSE SetDirichletRow(ConstantTempNodesLoop(sys, this, elementIndex, nodes, tempValue, i - 1),
                         this.nop[elementIndex][nodes[i]] - 1, tempValue)
ConstantTempNodes(sys, this, elementIndex, nodes, tempValue) ==
    After(sys, ConstantTempNodesLoop(sys, this, elementIndex, nodes, tempValue, Len(nodes)))

\* A variant of BoundarySides whose local nodes of a quadratic element are
\* numbered along the rows (bottom 0, 1, 2) instead of along the columns.
BoundarySidesRowMajor(this, boundaryKey) ==
    IF this.elementOrder = "linear"
    THEN boundarySidesLinear[KeyIndex(boundaryKey)]
    ELSE IF this.elementOrder = "quadratic"
    THEN boundarySidesQuadratic[CASE KeyIndex(boundaryKey) = 0 -> 1
                                  [] KeyIndex(boundaryKey) = 1 -> 0
                                  [] KeyIndex(boundaryKey) = 2 -> 3
                                  [] KeyIndex(boundaryKey) = 3 -> 2]
    ELSE <<>>

\* boundarySides[boundaryKey] for the element order of the mesh.
BoundarySides(this, boundaryKey) ==
    IF this.elementOrder = "linear"
    THEN boundarySidesLinear[KeyIndex(boundaryKey)]
    ELSE IF this.elementOrder = "quadratic"
    THEN boundarySidesQuadratic[KeyIndex(boundaryKey)]
    ELSE <<>>

\* this.boundaryElements[boundaryKey].forEach: the system after the first k
\* boundary elements of the list.
RECURSIVE ConstantTempElementsLoop(_, _, _, _, _, _)
ConstantTempElementsLoop(sys, this, list, nodes, tempValue, k) ==
    IF k = 0 THEN sys
    ELSE ConstantTempNodes(ConstantTempElementsLoop(sys, this, list, nodes, tempValue, k - 1),
                           this, list[k - 1][1], nodes, tempValue)
ConstantTempElements(sys, this, boundaryKey, tempValue) ==
    ConstantTempElementsLoop(sys, this, this.boundaryElements[KeyIndex(boundaryKey)],
                             BoundarySides(this, boundaryKey), tempValue,
                             ArrLen(this.boundaryElements[KeyIndex(boundaryKey)]))

\* The body of the forEach of imposeConstantTempBoundaryConditions for one
\* boundary key whose list of boundary elements is defined.
ImposeConstantTempKey(sys, this, boundaryKey) ==
    LET condition == Lookup(this.boundaryConditions, boundaryKey)
    IN  IF this.meshDimension = "2D" /\ condition[1] = "constantTemp"
        THEN ConstantTempElements(sys, this, boundaryKey, Num(condition[2]))
        ELSE sys

\* The body throws a TypeError: the list of the key is undefined.
ConstantTempKeyThrows(this, boundaryKey) ==
    /\ this.meshDimension = "2D"
    /\ Lookup(this.boundaryConditions, boundaryKey)[1] = "constantTemp"
    /\ ~BoundaryListDefined(this, boundaryKey)

\* The local nodes visited by for (n = first; n < last; n += increment).
LoopNodes(firstNodeIndex, lastNodeIndex, nodeIncrement) ==
    LET count == IF lastNodeIndex <= firstNodeIndex THEN 0
                 ELSE ((lastNodeIndex - firstNodeIndex - 1) \div nodeIncrement) + 1
    IN  Eager([k \in 1..count |-> firstNodeIndex + (k - 1) * nodeIncrement])

\* gaussPoint1, gaussPoint2, firstNodeIndex, lastNodeIndex, nodeIncrement of
\* imposeConvectionBoundaryConditions for one side and one Gauss point.
ConvectionSideLinear(side, gaussPoint) ==
    CASE side = 0 -> [gaussPoint1 |-> gaussPoint, gaussPoint2 |-> Num(0),
                      firstNodeIndex |-> 0, lastNodeIndex |-> 2, nodeIncrement |-> 2]
      [] side = 1 -> [gaussPoint1 |-> Num(0), gaussPoint2 |-> gaussPoint,
                      firstNodeIndex |-> 0, lastNodeIndex |-> 1, nodeIncrement |-> 1]
      [] side = 2 -> [gaussPoint1 |-> gaussPoint, gaussPoint2 |-> Num(1),
                      firstNodeIndex |-> 1, lastNodeIndex |-> 3, nodeIncrement |-> 2]
      [] side = 3 -> [gaussPoint1 |-> Num(1), gaussPoint2 |-> gaussPoint,
                      firstNodeIndex |-> 2, lastNodeIndex |-> 3, nodeIncrement |-> 1]
ConvectionSideQuadratic(side, gaussPoint) ==
    CASE side = 0 -> [gaussPoint1 |-> gaussPoint, gaussPoint2 |-> Num(0),
                      firstNodeIndex |-> 0, lastNodeIndex |-> 7, nodeIncrement |-> 3]
      [] side = 1 -> [gaussPoint1 |-> Num(0), gaussPoint2 |-> gaussPoint,
                      firstNodeIndex |-> 0, lastNodeIndex |-> 3, nodeIncrement |-> 1]
      [] side = 2 -> [gaussPoint1 |-> gaussPoint, gaussPoint2 |-> Num(1),
                      firstNodeIndex |-> 2, lastNodeIndex |-> 9, nodeIncrement |-> 3]
      [] side = 3 -> [gaussPoint1 |-> Num(1), gaussPoint2 |-> gaussPoint,
                      firstNodeIndex |-> 6, lastNodeIndex |-> 9, nodeIncrement |-> 1]

\* x[g] += v for each <<g, v>> of updates, in order: the vector after the
\* first i updates.
RECURSIVE AddFirstToVector(_, _, _)
AddFirstToVector(vector, updates, i) ==
    IF i = 0 THEN vector
    ELSE [AddFirstToVector(vector, updates, i - 1) EXCEPT
            ![updates[i][1]] = Add(@, updates[i][2])]
AddToVector(vector, updates) == AddFirstToVector(vector, updates, Len(updates))
\* m[g1][g2] += v for each <<g1, g2, v>> of updates, in order: the matrix
\* after the first i updates.
RECURSIVE AddFirstToMatrix(_, _, _)
AddFirstToMatrix(matrix, updates, i) ==
    IF i = 0 THEN matrix
    ELSE [AddFirstToMatrix(matrix, updates, i - 1) EXCEPT
            ![updates[i][1]][updates[i][2]] = Add(@, updates[i][3])]
AddToMatrix(matrix, updates) == AddFirstToMatrix(matrix, updates, Len(updates))

\* A variant of ConvectionNodes that takes the local node index for the
\* global one.
ConvectionNodesLocalIndex(sys, locals, nodes, bf, gaussWeight, edge, convectionCoeff, extTemp) ==
    [sys EXCEPT
        !.residualVector = AddToVector(@,
            Eager([i \in 1..Len(nodes) |->
                <<nodes[i],
                  Mul(Mul(Mul(Mul(Neg(gaussWeight), edge), bf.basisFunction[nodes[i]]),
                          convectionCoeff), extTemp)>>])),
        !.jacobianMatrix = AddToMatrix(@,
            Eager([i \in 1..(Len(nodes) * Len(nodes)) |->
                LET n1 == nodes[((i - 1) \div Len(nodes)) + 1]
                    n2 == nodes[((i - 1) % Len(nodes)) + 1]
                IN  <<n1, n2,
                      Mul(Mul(Mul(Mul(Neg(gaussWeight), edge), bf.basisFunction[n1]),
                              bf.basisFunction[n2]), convectionCoeff)>>]))]

\* The accumulation loops of one Gauss point of one boundary element side
\* over the local nodes of the side; edge is the Jacobian of the side.
ConvectionNodes(sys, locals, nodes, bf, gaussWeight, edge, convectionCoeff, extTemp) ==
    [sys EXCEPT
        !.residualVector = AddToVector(@,
            Eager([i \in 1..Len(nodes) |->
                <<locals[nodes[i]],
                  Mul(Mul(Mul(Mul(Neg(gaussWeight), edge), bf.basisFunction[nodes[i]]),
                          convectionCoeff), extTemp)>>])),
        !.jacobianMatrix = AddToMatrix(@,
            Eager([i \in 1..(Len(nodes) * Len(nodes)) |->
                LET n1 == nodes[((i - 1) \div Len(nodes)) + 1]
                    n2 == nodes[((i - 1) % Len(nodes)) + 1]
                IN  <<locals[n1], locals[n2],
                      Mul(Mul(Mul(Mul(Neg(gaussWeight), edge), bf.basisFunction[n1]),
                              bf.basisFunction[n2]), convectionCoeff)>>]))]

\* The Jacobian of a side: ksiDerivX on the sides 0 and 2, etaDerivY on the
\* sides 1 and 3.
ConvectionEdge(mesh, side, locals, bf, numNodes) ==
    IF side = 0 \/ side = 2
    THEN Interpolate(mesh.nodesXCoordinates, locals, bf.basisFunctionDerivKsi, numNodes)
    ELSE Interpolate(mesh.nodesYCoordinates, locals, bf.basisFunctionDerivEta, numNodes)

\* One Gauss point of one boundary element side, the basis functions bf and
\* the global numbers locals of the nodes of the element computed.
ConvectionSidePoint(sys, mesh, side, sd, gaussWeight, convectionCoeff, extTemp, locals, numNodes, bf) ==
    ConvectionNodes(sys, locals,
                    LoopNodes(sd.firstNodeIndex, sd.lastNodeIndex, sd.nodeIncrement), bf,
                    gaussWeight, ConvectionEdge(mesh, side, locals, bf, numNodes),
                    convectionCoeff, extTemp)

\* One Gauss point of one boundary element side: the edge Jacobian and the
\* accumulation over the local nodes of the side.
ConvectionGaussPoint(sys, this, mesh, elementIndex, side, sd, gaussWeight, convectionCoeff, extTemp) ==
    After(sys, ConvectionSidePoint(sys, mesh, side, sd, gaussWeight, convectionCoeff, extTemp,
                Eager([n \in 0..(ArrLen(this.nop[elementIndex]) - 1) |->
                         this.nop[elementIndex][n] - 1]),
                ArrLen(this.nop[elementIndex]),
                getBasisFunctions(this.meshDimension, this.elementOrder,
                                  sd.gaussPoint1, sd.gaussPoint2)))

\* The side table of the element order.
ConvectionSide(elementOrder, side, gaussPoint) ==
    IF elementOrder = "linear" THEN ConvectionSideLinear(side, gaussPoint)
    ELSE ConvectionSideQuadratic(side, gaussPoint)
\* The Gauss points visited on a side: gaussPoints[0] of a linear element,
\* the loop over three Gauss points of a quadratic element.
ConvectionGaussCount(elementOrder) ==
    IF elementOrder = "linear" THEN 1
    ELSE IF elementOrder = "quadratic" THEN 3
    ELSE 0

\* The system after the first g Gauss points of one boundary element side.
RECURSIVE ConvectionGaussLoop(_, _, _, _, _, _, _, _, _)
ConvectionGaussLoop(sys, this, mesh, gauss, elementIndex, side, convectionCoeff, extTemp, g) ==
    IF g = 0 THEN sys
    ELSE ConvectionGaussPoint(
            ConvectionGaussLoop(sys, this, mesh, gauss, elementIndex, side,
                                convectionCoeff, extTemp, g - 1),
            this, mesh, elementIndex, side,
            ConvectionSide(this.elementOrder, side, gauss.gaussPoints[g - 1]),
            gauss.gaussWeights[g - 1], convectionCoeff, extTemp)

\* One boundary element of this.boundaryElements[boundaryKey].forEach.
ConvectionElement(sys, this, mesh, gauss, elementIndex, side, convectionCoeff, extTemp) ==
    After(sys, ConvectionGaussLoop(sys, this, mesh, gauss, elementIndex, side,
                                   convectionCoeff, extTemp,
                                   ConvectionGaussCount(this.elementOrder)))
\* The system after the first k boundary elements of the list.
RECURSIVE ConvectionElementsLoop(_, _, _, _, _, _, _, _)
ConvectionElementsLoop(sys, this, mesh, gauss, list, convectionCoeff, extTemp, k) ==
    IF k = 0 THEN sys
    ELSE ConvectionElement(
            ConvectionElementsLoop(sys, this, mesh, gauss, list, convectionCoeff, extTemp, k - 1),
            this, mesh, gauss, list[k - 1][1], list[k - 1][2], convectionCoeff, extTemp)
ConvectionElements(sys, this, mesh, gauss, boundaryKey, convectionCoeff, extTemp) ==
    ConvectionElementsLoop(sys, this, mesh, gauss, this.boundaryElements[KeyIndex(boundaryKey)],
                           convectionCoeff, extTemp,
                           ArrLen(this.boundaryElements[KeyIndex(boundaryKey)]))

\* The body of the forEach of imposeConvectionBoundaryConditions for one
\* boundary key whose list of boundary elements is defined.
ImposeConvectionKey(sys, this, mesh, gauss, boundaryKey) ==
    LET condition == Lookup(this.boundaryConditions, boundaryKey)
    IN  IF this.meshDimension = "2D" /\ condition[1] = "convection"
        THEN ConvectionElements(sys, this, mesh, gauss, boundaryKey,
                                Num(condition[2]), Num(condition[3]))
        ELSE sys

\* The body throws a TypeError: the list of the key is undefined.
ConvectionKeyThrows(this, boundaryKey) ==
    /\ this.meshDimension = "2D"
    /\ Lookup(this.boundaryConditions, boundaryKey)[1] = "convection"
    /\ ~BoundaryListDefined(this, boundaryKey)

(***************************************************************************)
(* The inputs drawn for the operations.                                    *)
(***************************************************************************)
\* The object {} (no property).
EmptyObject == [name \in {} |-> Undefined]

\* The mesh configurations passed to setMeshConfig: structured quadratic
\* meshes of unit squares, a quadratic mesh without maxY, a one-dimensional
\* mesh and a linear mesh.
MeshConfigs ==
    {[meshDimension |-> "2D", elementOrder |-> "quadratic", numElementsX |-> nx,
      numElementsY |-> 1, maxX |-> nx, maxY |-> 1] : nx \in 1..MaxElements}
    \cup {[meshDimension |-> "2D", elementOrder |-> "quadratic", numElementsX |-> 1,
           numElementsY |-> 1, maxX |-> 1]}
    \cup {[meshDimension |-> "1D", elementOrder |-> "quadratic", numElementsX |-> 1,
           maxX |-> 1]}
    \cup {[meshDimension |-> "2D", elementOrder |-> "linear", numElementsX |-> 1,
           numElementsY |-> 1, maxX |-> 1, maxY |-> 1]}

\* The boundary keys and the conditions passed to addBoundaryCondition.
BoundaryKeys == {"0", "1", "2", "3", "left"}
Conditions ==
    {<<"convection", 1, 20>>, <<"constantTemp", 100>>, <<"constantTemp", 50>>,
     <<"heatFlux", 5>>}

SolverConfigs == {"solidHeatTransferScript", "fluidFlowScript"}
SolverMethods == {"lusolve", "jacobi"}

(***************************************************************************)
(* assembleSolidHeatTransferMat: from the configuration to the loop over   *)
(* the elements.                                                           *)
(***************************************************************************)
\* totalNodes = totalNodesX * totalNodesY of the generated mesh.
TotalNodes(mesh) ==
    IF Has(mesh, "totalNodesY") THEN Mul(mesh.totalNodesX, mesh.totalNodesY) ELSE NonFinite
\* totalElements = numElementsX * numElementsY of the configuration.
TotalElements(config) == Mul(NumField(config, "numElementsX"), NumField(config, "numElementsY"))
\* The object of class basisFunctions built from the configuration.
BasisOf(config) ==
    [meshDimension |-> Field(config, "meshDimension", Undefined),
     elementOrder  |-> Field(config, "elementOrder", Undefined)]
\* nop[0] is undefined: reading nop[0].length throws a TypeError.
NoFirstRow(nop) == 0 \notin DOMAIN nop

\* The loop over the elements on the generated mesh (the zero system when
\* nop[0].length throws before the loop).
AssembleMesh(config, meshData) ==
    IF NoFirstRow(meshData.nodalNumbering)
    THEN InitialSystem(LoopEnd(TotalNodes(meshData)))
    ELSE ElementLoop(InitialSystem(LoopEnd(TotalNodes(meshData))), meshData, BasisOf(config),
                     getGaussPointsAndWeights(Field(config, "elementOrder", Undefined)),
                     ArrLen(meshData.nodalNumbering[0]),
                     LoopEnd(TotalElements(config)))
\* The system after the loop over the elements.
assembleElements(config) == AssembleMesh(config, generateMesh(meshGeneration(config)))

\* The loop over the elements depends on the mesh configuration only; it is
\* evaluated once per configuration.
AssembledSystems ==
    Eager([config \in MeshConfigs \cup {EmptyObject} |-> assembleElements(config)])

\* A variant of StageAfter that imposes the constant temperatures before the
\* convection terms.
StageAfterDirichletFirst(stage) ==
    CASE stage = "assembly"     -> "constantTemp"
      [] stage = "constantTemp" -> "convection"
      [] stage = "convection"   -> "systemSolving"

\* The order of the steps of assembleSolidHeatTransferMat after the loop
\* over the elements.
StageAfter(stage) ==
    CASE stage = "assembly"     -> "convection"
      [] stage = "convection"   -> "constantTemp"
      [] stage = "constantTemp" -> "systemSolving"

\* The value math.lusolve returns for a system (math.js is not part of the
\* repository: the value is left uninterpreted).
LuSolution(matrix, vector) == <<"lusolve", matrix, vector>>

(***************************************************************************)
(* The state: a FEAScriptModel object, the position of a call of solve,    *)
(* the local variables of solve and of assembleSolidHeatTransferMat, and   *)
(* the outcome of the most recent call. previousAssembly is a history     *)
(* variable, read by no step of the program: the jacobianMatrix,           *)
(* residualVector and nodesCoordinates the assembler returned to the most  *)
(* recent earlier call of solve made on the configuration the model has    *)
(* now (the empty object when there was no such call).                     *)
(***************************************************************************)
VARIABLES solverConfig, meshConfig, boundaryConditions, solverMethod,
          pc, nodesCoordinatesAndNumbering, residualVector, jacobianMatrix, detJacobian, boundaryIndex,
          solutionVector, nodesCoordinates, outcome, previousAssembly

model  == <<solverConfig, meshConfig, boundaryConditions, solverMethod>>
locals == <<nodesCoordinatesAndNumbering, residualVector, jacobianMatrix, detJacobian, boundaryIndex>>
result == <<solutionVector, nodesCoordinates>>
vars   == <<model, pc, locals, result, outcome, previousAssembly>>

Sys == [residualVector |-> residualVector, jacobianMatrix |-> jacobianMatrix,
        detJacobian |-> detJacobian]

thermalBoundaryConditions ==
    ThermalBoundaryConditions(boundaryConditions, nodesCoordinatesAndNumbering.boundaryElements, nodesCoordinatesAndNumbering.nodalNumbering,
                              Field(meshConfig, "meshDimension", Undefined),
                              Field(meshConfig, "elementOrder", Undefined))

\* A variant of ClearLocals in which residualVector and jacobianMatrix are
\* not arrays of the call: the arrays one call leaves are those the next
\* call starts with.
ClearLocalsKeepsArrays ==
    /\ nodesCoordinatesAndNumbering' = EmptyObject
    /\ UNCHANGED <<residualVector, jacobianMatrix>>
    /\ detJacobian' = Undefined
    /\ boundaryIndex' = 0

\* The locals of a call: let residualVector = [], let jacobianMatrix = []
\* are arrays each call allocates, and they end with the call.
ClearLocals ==
    /\ nodesCoordinatesAndNumbering' = EmptyObject
    /\ residualVector' = EmptyArr
    /\ jacobianMatrix' = EmptyArr
    /\ detJacobian' = Undefined
    /\ boundaryIndex' = 0
ClearResult ==
    /\ solutionVector' = EmptyArr
    /\ nodesCoordinates' = EmptyObject

\* The assignments of the system to residualVector and jacobianMatrix.
SetSystem(sys) ==
    /\ residualVector' = sys.residualVector
    /\ jacobianMatrix' = sys.jacobianMatrix
\* The system and the detJacobian the loop over the elements leaves.
SetAssembled(sys) ==
    /\ SetSystem(sys)
    /\ detJacobian' = sys.detJacobian

\* The row of jacobianMatrix after jacobianMatrix[nodeIndex][colIndex] = 0
\* for the indices of zeroRow, on the row held.
ZeroInitialisedRow(held, zeroRow) ==
    Eager([colIndex \in DOMAIN held \cup DOMAIN zeroRow |->
              IF colIndex \in DOMAIN zeroRow THEN zeroRow[colIndex] ELSE held[colIndex]])
\* The arrays after the loop that zero-initialises them, run on the arrays
\* sys of the call: residualVector[nodeIndex] = 0 writes an entry,
\* jacobianMatrix.push([]) appends a row to the rows the array holds, and
\* jacobianMatrix[nodeIndex][colIndex] = 0 writes the entries of the row of
\* index nodeIndex. zeros are the values written; on the empty arrays of a
\* new call the result is zeros.
ZeroInitialised(sys, zeros) ==
    [residualVector |-> ZeroInitialisedRow(sys.residualVector, zeros.residualVector),
     jacobianMatrix |->
         Eager([nodeIndex \in 0..(ArrLen(sys.jacobianMatrix) + ArrLen(zeros.jacobianMatrix) - 1) |->
             IF nodeIndex \in DOMAIN zeros.jacobianMatrix
             THEN ZeroInitialisedRow(IF nodeIndex \in DOMAIN sys.jacobianMatrix
                                     THEN sys.jacobianMatrix[nodeIndex] ELSE EmptyArr,
                                     zeros.jacobianMatrix[nodeIndex])
             ELSE IF nodeIndex \in DOMAIN sys.jacobianMatrix
                  THEN sys.jacobianMatrix[nodeIndex] ELSE EmptyArr])]

\* The row held after += of the entries of added.
AccumulatedRow(held, added) ==
    Eager([colIndex \in DOMAIN held |->
              IF colIndex \in DOMAIN added THEN Add(held[colIndex], added[colIndex])
              ELSE held[colIndex]])
\* The arrays after the loop over the elements, run on the arrays sys of the
\* call: the loop changes entries with += only, so that every entry is the
\* entry held plus what the loop adds to a zero entry (assembled).
Accumulated(sys, assembled) ==
    [residualVector |-> AccumulatedRow(sys.residualVector, assembled.residualVector),
     jacobianMatrix |->
         Eager([nodeIndex \in DOMAIN sys.jacobianMatrix |->
             IF nodeIndex \in DOMAIN assembled.jacobianMatrix
             THEN AccumulatedRow(sys.jacobianMatrix[nodeIndex], assembled.jacobianMatrix[nodeIndex])
             ELSE sys.jacobianMatrix[nodeIndex]]),
     detJacobian    |-> assembled.detJacobian]

\* new FEAScriptModel()
Init ==
    /\ solverConfig = Null
    /\ meshConfig = EmptyObject
    /\ boundaryConditions = <<>>
    /\ solverMethod = "lusolve"
    /\ pc = "idle"
    /\ nodesCoordinatesAndNumbering = EmptyObject
    /\ residualVector = EmptyArr
    /\ jacobianMatrix = EmptyArr
    /\ detJacobian = Undefined
    /\ boundaryIndex = 0
    /\ solutionVector = EmptyArr
    /\ nodesCoordinates = EmptyObject
    /\ outcome = "none"
    /\ previousAssembly = EmptyObject

\* A call that returns undefined after assigning the fields of the model.
\* (In each setter, previousAssembly is emptied when the field changes: an
\* earlier assembly is comparable only while the configuration is unchanged.)
Returns ==
    /\ pc = "idle"
    /\ outcome' = "none"
    /\ ClearResult
    /\ UNCHANGED <<pc, locals>>

setSolverConfig ==
    \E value \in SolverConfigs :
        /\ Returns
        /\ solverConfig' = value
        /\ previousAssembly' = IF value = solverConfig THEN previousAssembly ELSE EmptyObject
        /\ UNCHANGED <<meshConfig, boundaryConditions, solverMethod>>

setMeshConfig ==
    \E value \in MeshConfigs :
        /\ Returns
        /\ meshConfig' = value
        /\ previousAssembly' = IF value = meshConfig THEN previousAssembly ELSE EmptyObject
        /\ UNCHANGED <<solverConfig, boundaryConditions, solverMethod>>

addBoundaryCondition ==
    \E boundaryKey \in BoundaryKeys, condition \in Conditions :
        /\ HasKey(boundaryConditions, boundaryKey) \/ Len(boundaryConditions) < MaxBoundaries
        /\ Returns
        /\ boundaryConditions' = SetProperty(boundaryConditions, boundaryKey, condition)
        /\ previousAssembly' = IF boundaryConditions' = boundaryConditions THEN previousAssembly
                             ELSE EmptyObject
        /\ UNCHANGED <<solverConfig, meshConfig, solverMethod>>

setSolverMethod ==
    \E value \in SolverMethods :
        /\ Returns
        /\ solverMethod' = value
        /\ previousAssembly' = IF value = solverMethod THEN previousAssembly ELSE EmptyObject
        /\ UNCHANGED <<solverConfig, meshConfig, boundaryConditions>>

\* nodesCoordinates of the object solve returns.
ReturnedCoordinates ==
    IF solverConfig = "solidHeatTransferScript"
    THEN [nodesXCoordinates |-> nodesCoordinatesAndNumbering.nodesXCoordinates,
          nodesYCoordinates |-> Field(nodesCoordinatesAndNumbering, "nodesYCoordinates", Undefined)]
    ELSE EmptyObject

\* The object assembleSolidHeatTransferMat has returned to the call of
\* solve in progress.
AssemblyOfCall ==
    [jacobianMatrix   |-> jacobianMatrix,
     residualVector   |-> residualVector,
     nodesCoordinates |-> ReturnedCoordinates]

\* The history at the end of a call of solve: a call to which the assembler
\* returned leaves what it returned to be compared with the next call.
RecordAssembly ==
    previousAssembly' = IF pc = "systemSolving" /\ solverConfig = "solidHeatTransferScript"
                        THEN AssemblyOfCall
                        ELSE previousAssembly

\* A statement of solve throws: the call ends and its locals are gone.
Throw(error) ==
    /\ pc' = "idle"
    /\ outcome' = error
    /\ ClearLocals
    /\ ClearResult
    /\ RecordAssembly
    /\ UNCHANGED model

\* solve: the check of the configuration. meshConfig and boundaryConditions
\* always hold objects, which are truthy.
solveThrowsConfigError ==
    /\ pc = "idle"
    /\ solverConfig = Null
    /\ Throw("Error")

\* solve: the declarations of the locals and the choice of the assembler.
solveStart ==
    /\ pc = "idle"
    /\ solverConfig # Null
    /\ pc' = IF solverConfig = "solidHeatTransferScript" THEN "generateMesh"
             ELSE "systemSolving"
    /\ outcome' = "none"
    /\ ClearLocals
    /\ ClearResult
    /\ UNCHANGED <<model, previousAssembly>>

\* assembleSolidHeatTransferMat: the nodesCoordinatesAndNumbering, and the loop that
\* zero-initialises the arrays of the call.
generateMeshStep ==
    /\ pc = "generateMesh"
    /\ nodesCoordinatesAndNumbering' = generateMesh(meshGeneration(meshConfig))
    /\ SetSystem(ZeroInitialised(Sys, InitialSystem(LoopEnd(TotalNodes(nodesCoordinatesAndNumbering')))))
    /\ pc' = "assembly"
    /\ UNCHANGED <<model, detJacobian, boundaryIndex, result, outcome, previousAssembly>>

\* assembleSolidHeatTransferMat: nop[0].length throws.
assemblyThrows ==
    /\ pc = "assembly"
    /\ NoFirstRow(nodesCoordinatesAndNumbering.nodalNumbering)
    /\ Throw("TypeError")

\* assembleSolidHeatTransferMat: the loop over the elements, on the arrays
\* of the call.
assemblyStep ==
    /\ pc = "assembly"
    /\ ~NoFirstRow(nodesCoordinatesAndNumbering.nodalNumbering)
    /\ SetAssembled(Accumulated(Sys, AssembledSystems[meshConfig]))
    /\ pc' = StageAfter("assembly")
    /\ boundaryIndex' = 1
    /\ UNCHANGED <<model, nodesCoordinatesAndNumbering, result, outcome, previousAssembly>>

\* imposeConvectionBoundaryConditions: one boundary key of the forEach.
convectionStep ==
    /\ pc = "convection"
    /\ boundaryIndex <= Len(boundaryConditions)
    /\ ~ConvectionKeyThrows(thermalBoundaryConditions,
                            ObjectKeys(boundaryConditions)[boundaryIndex])
    /\ SetSystem(ImposeConvectionKey(Sys, thermalBoundaryConditions, nodesCoordinatesAndNumbering,
                    getGaussPointsAndWeights(Field(meshConfig, "elementOrder", Undefined)),
                    ObjectKeys(boundaryConditions)[boundaryIndex]))
    /\ boundaryIndex' = boundaryIndex + 1
    /\ UNCHANGED <<model, pc, nodesCoordinatesAndNumbering, detJacobian, result, outcome, previousAssembly>>

convectionThrows ==
    /\ pc = "convection"
    /\ boundaryIndex <= Len(boundaryConditions)
    /\ ConvectionKeyThrows(thermalBoundaryConditions,
                           ObjectKeys(boundaryConditions)[boundaryIndex])
    /\ Throw("TypeError")

\* imposeConstantTempBoundaryConditions: one boundary key of the forEach.
constantTempStep ==
    /\ pc = "constantTemp"
    /\ boundaryIndex <= Len(boundaryConditions)
    /\ ~ConstantTempKeyThrows(thermalBoundaryConditions,
                              ObjectKeys(boundaryConditions)[boundaryIndex])
    /\ SetSystem(ImposeConstantTempKey(Sys, thermalBoundaryConditions,
                                       ObjectKeys(boundaryConditions)[boundaryIndex]))
    /\ boundaryIndex' = boundaryIndex + 1
    /\ UNCHANGED <<model, pc, nodesCoordinatesAndNumbering, detJacobian, result, outcome, previousAssembly>>

constantTempThrows ==
    /\ pc = "constantTemp"
    /\ boundaryIndex <= Len(boundaryConditions)
    /\ ConstantTempKeyThrows(thermalBoundaryConditions,
                             ObjectKeys(boundaryConditions)[boundaryIndex])
    /\ Throw("TypeError")

\* The forEach over the boundary keys ends: the next step of the assembler,
\* or its return to solve.
endOfKeys ==
    /\ pc \in {"convection", "constantTemp"}
    /\ boundaryIndex > Len(boundaryConditions)
    /\ pc' = StageAfter(pc)
    /\ boundaryIndex' = 1
    /\ UNCHANGED <<model, nodesCoordinatesAndNumbering, residualVector, jacobianMatrix, detJacobian, result, outcome, previousAssembly>>

\* A variant of Return after which the model holds no boundary condition.
ReturnClearsConditions(solution) ==
    /\ pc' = "idle"
    /\ outcome' = "returned"
    /\ solutionVector' = solution
    /\ nodesCoordinates' = ReturnedCoordinates
    /\ ClearLocals
    /\ RecordAssembly
    /\ boundaryConditions' = <<>>
    /\ UNCHANGED <<solverConfig, meshConfig, solverMethod>>

\* solve returns {solutionVector, nodesCoordinates}.
Return(solution) ==
    /\ pc' = "idle"
    /\ outcome' = "returned"
    /\ solutionVector' = solution
    /\ nodesCoordinates' = ReturnedCoordinates
    /\ ClearLocals
    /\ RecordAssembly
    /\ UNCHANGED model

\* solve: math.lusolve returns.
luSolveReturns ==
    /\ pc = "systemSolving"
    /\ solverMethod = "lusolve"
    /\ Return(LuSolution(jacobianMatrix, residualVector))

\* solve: math.lusolve throws.
luSolveThrows ==
    /\ pc = "systemSolving"
    /\ solverMethod = "lusolve"
    /\ Throw("lusolveError")

\* solve: the solver method is not "lusolve" and no system is solved.
solveSkipsSolving ==
    /\ pc = "systemSolving"
    /\ solverMethod # "lusolve"
    /\ Return(EmptyArr)

Next ==
    \/ setSolverConfig
    \/ setMeshConfig
    \/ addBoundaryCondition
    \/ setSolverMethod
    \/ solveThrowsConfigError
    \/ solveStart
    \/ generateMeshStep
    \/ assemblyThrows
    \/ assemblyStep
    \/ convectionStep
    \/ convectionThrows
    \/ constantTempStep
    \/ constantTempThrows
    \/ endOfKeys
    \/ luSolveReturns
    \/ luSolveThrows
    \/ solveSkipsSolving

Spec == Init /\ [][Next]_vars

(***************************************************************************)
(* The mesh generator on its own: a meshGeneration object is built from a  *)
(* configuration and generateMesh is called on it.                         *)
(***************************************************************************)
MeshInputs ==
    [meshDimension : {"1D", "2D"}, elementOrder : {"linear", "quadratic"},
     numElementsX : 1..MaxMeshElements, numElementsY : 1..MaxMeshElements,
     maxX : 0..MaxLength, maxY : 0..MaxLength]
    \cup [meshDimension : {"1D", "2D"}, elementOrder : {"linear", "quadratic"},
          numElementsX : {1}, numElementsY : {1}, maxX : {1}, maxY : {1},
          meshFile : {"mesh.json"}]

InitMesh ==
    /\ solverConfig = Null
    /\ meshConfig \in MeshInputs
    /\ boundaryConditions = <<>>
    /\ solverMethod = "lusolve"
    /\ pc = "meshGeneration"
    /\ nodesCoordinatesAndNumbering = EmptyObject
    /\ residualVector = EmptyArr
    /\ jacobianMatrix = EmptyArr
    /\ detJacobian = Undefined
    /\ boundaryIndex = 0
    /\ solutionVector = EmptyArr
    /\ nodesCoordinates = EmptyObject
    /\ outcome = "none"
    /\ previousAssembly = EmptyObject

\* new meshGeneration(meshConfig).generateMesh(), no mesh file given.
generateMeshCall ==
    /\ pc = "meshGeneration"
    /\ meshGeneration(meshConfig).meshFile = Null
    /\ nodesCoordinatesAndNumbering' = generateMesh(meshGeneration(meshConfig))
    /\ pc' = "meshGenerated"
    /\ UNCHANGED <<model, residualVector, jacobianMatrix, detJacobian, boundaryIndex,
                   result, outcome, previousAssembly>>

\* new meshGeneration(meshConfig).generateMesh() with a mesh file:
\* generateMeshFromCustomFile calls response.json() on the promise fetch
\* returns, which throws a TypeError (a ReferenceError where fetch is not
\* defined).
generateMeshFromCustomFileThrows ==
    /\ pc = "meshGeneration"
    /\ meshGeneration(meshConfig).meshFile # Null
    /\ pc' = "meshGenerationThrew"
    /\ outcome' \in {"TypeError", "ReferenceError"}
    /\ UNCHANGED <<model, locals, result, previousAssembly>>

NextMesh ==
    \/ generateMeshCall
    \/ generateMeshFromCustomFileThrows

SpecMesh == InitMesh /\ [][NextMesh]_vars

(***************************************************************************)
(* Properties of the assembled system.                                     *)
(***************************************************************************)
\* assembleSolidHeatTransferMat has returned its system to solve.
AssemblyReturned == pc = "systemSolving" /\ solverConfig = "solidHeatTransferScript"

\* The 0-based ids of the nodes of the grid of a two-dimensional
\* configuration that lie on a side of the rectangle (0 bottom, 1 left,
\* 2 top, 3 right); node i * nodesY + j is in column i and row j.
NodesOnSide(config, side) ==
    LET nodesX == 2 * config.numElementsX + 1
        nodesY == 2 * config.numElementsY + 1
    IN  {ij[1] * nodesY + ij[2] : ij \in
            {p \in (0..(nodesX - 1)) \X (0..(nodesY - 1)) :
                CASE side = 0 -> p[2] = 0
                  [] side = 1 -> p[1] = 0
                  [] side = 2 -> p[2] = nodesY - 1
                  [] side = 3 -> p[1] = nodesX - 1}}

\* The positions, in the order of Object.keys, of the conditions of a kind
\* given on a side that holds the node.
PositionsOn(node, kind) ==
    {k \in 1..Len(boundaryConditions) :
        /\ boundaryConditions[k][2][1] = kind
        /\ IsIndexKey(boundaryConditions[k][1])
        /\ node \in NodesOnSide(meshConfig, KeyIndex(boundaryConditions[k][1]))}

\* Row node of the matrix is the row of the identity matrix.
IdentityRow(node) ==
    \A colIndex \in DOMAIN residualVector :
        jacobianMatrix[node][colIndex] = IF colIndex = node THEN Num(1) ELSE Num(0)

\* C1 (as amended): in the system assembleSolidHeatTransferMat returns, every
\* node on a side with a constantTemp condition has the identity row, and
\* its residual entry is the value of the last constantTemp condition, in
\* the order of Object.keys, among the sides that hold the node.
C1_ConstantTempRows ==
    AssemblyReturned =>
        \A node \in DOMAIN residualVector :
            LET positions == PositionsOn(node, "constantTemp")
                last == CHOOSE k \in positions : \A other \in positions : other <= k
            IN  positions # {} =>
                    /\ IdentityRow(node)
                    /\ residualVector[node] = Num(boundaryConditions[last][2][2])

\* C1 as stated: the residual entry of such a node equals the value of every
\* constantTemp condition whose side holds the node.
C1_AsStated ==
    AssemblyReturned =>
        \A node \in DOMAIN residualVector :
            \A k \in PositionsOn(node, "constantTemp") :
                /\ IdentityRow(node)
                /\ residualVector[node] = Num(boundaryConditions[k][2][2])

\* A corner node of two sides that carry different constant temperatures.
C1_Witness ==
    /\ AssemblyReturned
    /\ \E node \in DOMAIN residualVector :
        \E k1, k2 \in PositionsOn(node, "constantTemp") :
            /\ k1 < k2
            /\ boundaryConditions[k1][2][2] # boundaryConditions[k2][2][2]
            /\ IdentityRow(node)
            /\ residualVector[node] = Num(boundaryConditions[k2][2][2])

\* The rows of the nodes that lie on a convection side and on a
\* constantTemp side are rows of the identity with a specified temperature
\* as residual entry.
PureDirichletCorners ==
    \A node \in DOMAIN residualVector :
        (PositionsOn(node, "constantTemp") # {} /\ PositionsOn(node, "convection") # {}) =>
            /\ IdentityRow(node)
            /\ \E k \in PositionsOn(node, "constantTemp") :
                   residualVector[node] = Num(boundaryConditions[k][2][2])

\* C2: once the constant temperatures are being imposed, no step of the
\* call accumulates into the system again (the element loop and the
\* convection terms come before), and the system that is returned has the
\* pure Dirichlet row at every node shared by a convection side and a
\* constantTemp side.
C2_DirichletAfterAccumulation ==
    [][/\ pc = "constantTemp" => pc' \notin {"assembly", "convection"}
       /\ pc = "convection" => pc' \in {"convection", "constantTemp", "idle"}
       /\ (pc # "systemSolving" /\ pc' = "systemSolving"
              /\ solverConfig' = "solidHeatTransferScript") => PureDirichletCorners'
      ]_vars

\* A returned system with a corner node whose constantTemp key precedes its
\* convection key in the order of Object.keys.
C2_Witness ==
    /\ AssemblyReturned
    /\ \E node \in DOMAIN residualVector :
        /\ \E k1 \in PositionsOn(node, "constantTemp"), k2 \in PositionsOn(node, "convection") :
               k1 < k2
        /\ IdentityRow(node)

\* C3 as stated: solve goes past its configuration check only when the
\* solver configuration, the mesh configuration and at least one boundary
\* condition have been supplied since construction.
C3_ConfigErrorWhenUnset ==
    pc # "idle" =>
        /\ solverConfig # Null
        /\ DOMAIN meshConfig # {}
        /\ Len(boundaryConditions) > 0

\* C5 as stated: the list of boundary elements the imposition iterates for
\* a boundary key is defined, whatever the key.
C5_BoundaryListDefined ==
    (pc \in {"convection", "constantTemp"} /\ boundaryIndex <= Len(boundaryConditions)) =>
        LET boundaryKey == ObjectKeys(boundaryConditions)[boundaryIndex]
            kind == Lookup(boundaryConditions, boundaryKey)[1]
        IN  (thermalBoundaryConditions.meshDimension = "2D" /\ kind = pc) =>
                BoundaryListDefined(thermalBoundaryConditions, boundaryKey)

\* C6 as stated: the assembler returns a system only when every boundary
\* condition is of a recognised kind.
C6_UnknownKindReported ==
    AssemblyReturned =>
        \A k \in 1..Len(boundaryConditions) :
            boundaryConditions[k][2][1] \in {"constantTemp", "convection"}

\* C7 as stated: the system the assembler returns was computed with a
\* positive detJacobian and holds no entry that is not a finite number.
C7_PositiveDetJacobian ==
    AssemblyReturned =>
        /\ Sign(detJacobian) > 0
        /\ \A rowIndex, colIndex \in DOMAIN residualVector :
               IsFinite(jacobianMatrix[rowIndex][colIndex])

\* C8 as stated: a result solve returns holds a solution and the
\* coordinates of the nodes.
C8_NoEmptyResult ==
    outcome = "returned" =>
        /\ DOMAIN solutionVector # {}
        /\ DOMAIN nodesCoordinates # {}

(***************************************************************************)
(* Properties of the generated mesh.                                       *)
(***************************************************************************)
\* generateMesh has returned the mesh of a two-dimensional configuration.
Mesh2DGenerated == pc = "meshGenerated" /\ meshConfig.meshDimension = "2D"

\* C4 as stated: generateMesh returns no mesh with an empty nodalNumbering
\* and empty lists of boundary elements for a one-dimensional mesh or a
\* two-dimensional linear mesh.
C4_NoEmptyMesh ==
    (pc = "meshGenerated"
        /\ (meshConfig.meshDimension = "1D" \/ meshConfig.elementOrder = "linear")) =>
        ~(/\ nodesCoordinatesAndNumbering.nodalNumbering = EmptyArr
          /\ \A side \in DOMAIN nodesCoordinatesAndNumbering.boundaryElements :
                 nodesCoordinatesAndNumbering.boundaryElements[side] = EmptyArr)

\* C9: a two-dimensional mesh has 2 * numElementsX + 1 by
\* 2 * numElementsY + 1 nodes, one coordinate pair per node, and node
\* i * totalNodesY + j lies at (i * deltaX / 2, j * deltaY / 2); the mesh of
\* one element with maxX = maxY = 1 has 9 nodes with the corners of the unit
\* square at its corner nodes.
C9_GridCoordinates ==
    Mesh2DGenerated =>
        LET nodesX == 2 * meshConfig.numElementsX + 1
            nodesY == 2 * meshConfig.numElementsY + 1
            x == nodesCoordinatesAndNumbering.nodesXCoordinates
            y == nodesCoordinatesAndNumbering.nodesYCoordinates
        IN  /\ nodesCoordinatesAndNumbering.totalNodesX = Num(nodesX)
            /\ nodesCoordinatesAndNumbering.totalNodesY = Num(nodesY)
            /\ DOMAIN x = 0..(nodesX * nodesY - 1)
            /\ DOMAIN y = 0..(nodesX * nodesY - 1)
            /\ \A i \in 0..(nodesX - 1), j \in 0..(nodesY - 1) :
                   /\ x[i * nodesY + j] = Frac(i * meshConfig.maxX, 2 * meshConfig.numElementsX)
                   /\ y[i * nodesY + j] = Frac(j * meshConfig.maxY, 2 * meshConfig.numElementsY)
            /\ (meshConfig.numElementsX = 1 /\ meshConfig.numElementsY = 1
                    /\ meshConfig.maxX = 1 /\ meshConfig.maxY = 1) =>
                   /\ ArrLen(x) = 9
                   /\ <<x[0], y[0]>> = <<Num(0), Num(0)>>
                   /\ <<x[2], y[2]>> = <<Num(0), Num(1)>>
                   /\ <<x[6], y[6]>> = <<Num(1), Num(0)>>
                   /\ <<x[8], y[8]>> = <<Num(1), Num(1)>>

\* The mesh of two by two elements on a rectangle 1 wide and 2 high: the
\* node next to the last lies at (1, 3/2).
C9_Witness ==
    /\ Mesh2DGenerated
    /\ meshConfig.numElementsX = 2 /\ meshConfig.numElementsY = 2
    /\ meshConfig.maxX = 1 /\ meshConfig.maxY = 2
    /\ ArrLen(nodesCoordinatesAndNumbering.nodesXCoordinates) = 25
    /\ nodesCoordinatesAndNumbering.nodesXCoordinates[23] = Num(1)
    /\ nodesCoordinatesAndNumbering.nodesYCoordinates[23] = Frac(3, 2)

\* C10: the nodal numbering of a two-dimensional quadratic mesh has one row
\* of 9 node ids per element; the row of the element in column i and row j
\* (counted from 1) is row (i - 1) * numElementsY + (j - 1), its entry
\* 3 * (k - 1) + m is totalNodesY * (2 * i + k - 3) + 2 * j - 1 + m, and no
\* entry is 0.
C10_NodalNumbering ==
    (Mesh2DGenerated /\ meshConfig.elementOrder = "quadratic") =>
        LET nop == nodesCoordinatesAndNumbering.nodalNumbering
            nodesY == 2 * meshConfig.numElementsY + 1
        IN  /\ DOMAIN nop = 0..(meshConfig.numElementsX * meshConfig.numElementsY - 1)
            /\ \A i \in 1..meshConfig.numElementsX, j \in 1..meshConfig.numElementsY :
                   LET row == nop[(i - 1) * meshConfig.numElementsY + (j - 1)]
                   IN  /\ DOMAIN row = 0..8
                       /\ \A k \in 1..3, m \in 0..2 :
                              row[3 * (k - 1) + m] = nodesY * (2 * i + k - 3) + 2 * j - 1 + m
                       /\ \A localNodeIndex \in 0..8 : row[localNodeIndex] # 0

\* The numbering of two by two elements: the last row ends with node 25.
C10_Witness ==
    /\ Mesh2DGenerated /\ meshConfig.elementOrder = "quadratic"
    /\ meshConfig.numElementsX = 2 /\ meshConfig.numElementsY = 2
    /\ ArrLen(nodesCoordinatesAndNumbering.nodalNumbering) = 4
    /\ nodesCoordinatesAndNumbering.nodalNumbering[3][8] = 25
    /\ nodesCoordinatesAndNumbering.nodalNumbering[3][0] = 13

\* The elements of a mesh of numX by numY elements that touch a side of the
\* rectangle; element xIndex * numY + yIndex is in column xIndex, row yIndex.
ElementsOnSide(numX, numY, side) ==
    {xy[1] * numY + xy[2] : xy \in
        {p \in (0..(numX - 1)) \X (0..(numY - 1)) :
            CASE side = 0 -> p[2] = 0
              [] side = 1 -> p[1] = 0
              [] side = 2 -> p[2] = numY - 1
              [] side = 3 -> p[1] = numX - 1}}

\* C11: in the mesh of a two-dimensional quadratic configuration, list s of
\* boundaryElements holds the pair <<e, s>> exactly for the elements e that
\* touch side s (bottom, left, top, right for s = 0, 1, 2, 3), each pair
\* once, and no pair with another side tag; a corner element is in the
\* lists of both sides it touches.
C11_BoundaryElements ==
    (Mesh2DGenerated /\ meshConfig.elementOrder = "quadratic") =>
        LET lists == nodesCoordinatesAndNumbering.boundaryElements
            numX  == meshConfig.numElementsX
            numY  == meshConfig.numElementsY
        IN  /\ DOMAIN lists = 0..3
            /\ \A s \in 0..3 :
                   /\ {lists[s][k] : k \in DOMAIN lists[s]} =
                          {<<e, s>> : e \in ElementsOnSide(numX, numY, s)}
                   /\ \A k1, k2 \in DOMAIN lists[s] :
                          lists[s][k1] = lists[s][k2] => k1 = k2
            /\ \A xIndex \in {0, numX - 1}, yIndex \in {0, numY - 1} :
                   /\ \E k \in DOMAIN lists[IF yIndex = 0 THEN 0 ELSE 2] :
                          lists[IF yIndex = 0 THEN 0 ELSE 2][k][1] = xIndex * numY + yIndex
                   /\ \E k \in DOMAIN lists[IF xIndex = 0 THEN 1 ELSE 3] :
                          lists[IF xIndex = 0 THEN 1 ELSE 3][k][1] = xIndex * numY + yIndex

\* The lists of two by two elements: the top right element 3 is in the
\* list of the top side and in the list of the right side, the bottom left
\* element 0 in the lists of the bottom and of the left side.
C11_Witness ==
    /\ Mesh2DGenerated /\ meshConfig.elementOrder = "quadratic"
    /\ meshConfig.numElementsX = 2 /\ meshConfig.numElementsY = 2
    /\ nodesCoordinatesAndNumbering.boundaryElements[0] = Arr(<<(<<0, 0>>), (<<2, 0>>)>>)
    /\ nodesCoordinatesAndNumbering.boundaryElements[1] = Arr(<<(<<0, 1>>), (<<1, 1>>)>>)
    /\ nodesCoordinatesAndNumbering.boundaryElements[2] = Arr(<<(<<1, 2>>), (<<3, 2>>)>>)
    /\ nodesCoordinatesAndNumbering.boundaryElements[3] = Arr(<<(<<2, 3>>), (<<3, 3>>)>>)

\* x <= y for finite numbers.
Leq(x, y) == IsFinite(x) /\ IsFinite(y) /\ Sign(Sub(y, x)) >= 0
\* The coordinates of an array lie in [0, max], and 0 and max are among them.
Covers(coordinates, max) ==
    /\ \A k \in DOMAIN coordinates :
           Leq(Num(0), coordinates[k]) /\ Leq(coordinates[k], Num(max))
    /\ \E k \in DOMAIN coordinates : coordinates[k] = Num(0)
    /\ \E k \in DOMAIN coordinates : coordinates[k] = Num(max)

\* C12 as stated: the x-coordinates of the nodes of a generated mesh cover
\* [0, maxX] with minimum 0 and maximum maxX, in 1D as well as in 2D, and
\* in 2D the y-coordinates cover [0, maxY] likewise.
C12_DomainCovered ==
    pc = "meshGenerated" =>
        /\ Covers(nodesCoordinatesAndNumbering.nodesXCoordinates, meshConfig.maxX)
        /\ meshConfig.meshDimension = "2D" =>
               Covers(nodesCoordinatesAndNumbering.nodesYCoordinates, meshConfig.maxY)

(***************************************************************************)
(* Properties of the accumulation into the system.                         *)
(***************************************************************************)
\* The element loop and the convection terms have been accumulated and no
\* constant temperature has been imposed yet.
BeforeDirichlet ==
    \/ pc = "convection"
    \/ pc = "constantTemp" /\ boundaryIndex = 1

\* C13: the matrix the element loop and the convection terms leave, before
\* any row is overwritten for a constant temperature, is symmetric:
\* jacobianMatrix[m][n] = jacobianMatrix[n][m] for all global nodes m, n.
C13_SymmetricBeforeDirichlet ==
    BeforeDirichlet =>
        \A m, n \in DOMAIN jacobianMatrix : jacobianMatrix[m][n] = jacobianMatrix[n][m]

\* The convection terms of a side have been added to a finite matrix: two
\* different nodes are coupled by a non-zero entry, and the matrix differs
\* from the one the element loop left.
C13_Witness ==
    /\ pc = "constantTemp" /\ boundaryIndex = 1
    /\ \E k \in 1..Len(boundaryConditions) :
           boundaryConditions[k][2][1] = "convection" /\ IsIndexKey(boundaryConditions[k][1])
    /\ jacobianMatrix # AssembledSystems[meshConfig].jacobianMatrix
    /\ \A m, n \in DOMAIN jacobianMatrix : IsFinite(jacobianMatrix[m][n])
    /\ \E m, n \in DOMAIN jacobianMatrix :
           m # n /\ ~IsZero(jacobianMatrix[m][n]) /\ jacobianMatrix[m][n] = jacobianMatrix[n][m]

\* The <<element, side>> pairs of the boundary key at position k of the
\* boundary conditions when its condition is a convection on a side of a
\* two-dimensional mesh, no pair otherwise.
ConvectionPairs(k) ==
    IF /\ boundaryConditions[k][2][1] = "convection"
       /\ IsIndexKey(boundaryConditions[k][1])
       /\ Field(meshConfig, "meshDimension", Undefined) = "2D"
    THEN {<<e, KeyIndex(boundaryConditions[k][1])>> :
            e \in ElementsOnSide(meshConfig.numElementsX, meshConfig.numElementsY,
                                 KeyIndex(boundaryConditions[k][1]))}
    ELSE {}
\* The global nodes (0-based) of the three local nodes of a quadratic
\* element that lie on a side of it.
EdgeNodes(pair) ==
    {nodesCoordinatesAndNumbering.nodalNumbering[pair[1]][boundarySidesQuadratic[pair[2]][i]] - 1 :
        i \in 1..3}

\* C14: the step of imposeConvectionBoundaryConditions for one boundary key
\* changes residualVector[g] only if g is a node of the edge of an
\* <<element, side>> pair of that key and the key holds a convection, and
\* jacobianMatrix[g][g2] only if g and g2 are nodes of the edge of one such
\* pair; a key with another condition changes nothing.
C14_ConvectionFrame ==
    [][(pc = "convection" /\ pc' = "convection" /\ boundaryIndex' = boundaryIndex + 1) =>
          /\ DOMAIN residualVector' = DOMAIN residualVector
          /\ DOMAIN jacobianMatrix' = DOMAIN jacobianMatrix
          /\ \A g \in DOMAIN residualVector :
                 (\A pair \in ConvectionPairs(boundaryIndex) : g \notin EdgeNodes(pair)) =>
                     residualVector'[g] = residualVector[g]
          /\ \A g \in DOMAIN jacobianMatrix :
                 /\ DOMAIN jacobianMatrix'[g] = DOMAIN jacobianMatrix[g]
                 /\ \A g2 \in DOMAIN jacobianMatrix[g] :
                        (\A pair \in ConvectionPairs(boundaryIndex) :
                            g \notin EdgeNodes(pair) \/ g2 \notin EdgeNodes(pair)) =>
                            jacobianMatrix'[g][g2] = jacobianMatrix[g][g2]
      ]_vars

\* The convection of the first key, on a side of two elements, has been
\* imposed: the residual changed at a node of the side, and the entry of
\* the matrix that couples the two end nodes of the side, which belong to
\* different elements, is the one the element loop left.
C14_Witness ==
    /\ pc = "convection" /\ boundaryIndex = 2
    /\ Cardinality(ConvectionPairs(1)) = 2
    /\ \A m, n \in DOMAIN jacobianMatrix : IsFinite(jacobianMatrix[m][n])
    /\ \E pair \in ConvectionPairs(1) : \E g \in EdgeNodes(pair) :
           residualVector[g] # AssembledSystems[meshConfig].residualVector[g]
    /\ \E p1, p2 \in ConvectionPairs(1) :
           \E g \in EdgeNodes(p1) \ EdgeNodes(p2), g2 \in EdgeNodes(p2) \ EdgeNodes(p1) :
               /\ jacobianMatrix[g][g2] = AssembledSystems[meshConfig].jacobianMatrix[g][g2]
               /\ jacobianMatrix[g][g] # AssembledSystems[meshConfig].jacobianMatrix[g][g]

(***************************************************************************)
(* Properties of the FEAScriptModel object.                                *)
(***************************************************************************)
\* The keys of the boundary conditions, as a set.
KeySet(obj) == {obj[i][1] : i \in 1..Len(obj)}
\* Each key of the object names one property.
OneConditionPerKey(obj) ==
    \A i, j \in 1..Len(obj) : obj[i][1] = obj[j][1] => i = j

\* The object new is the object old after old[boundaryKey] = condition.
AssignedIn(old, new, boundaryKey, condition) ==
    /\ OneConditionPerKey(new)
    /\ KeySet(new) = KeySet(old) \cup {boundaryKey}
    /\ Lookup(new, boundaryKey) = condition
    /\ \A other \in KeySet(old) \ {boundaryKey} : Lookup(new, other) = Lookup(old, other)

\* C15: each boundary key maps to exactly one condition; the assignment of
\* addBoundaryCondition, for every key and condition, leaves the key
\* mapped to the condition given and every other key to the condition it
\* mapped to before; and a step changes the boundary conditions only as one
\* such assignment.
C15_OneConditionPerKey ==
    [][/\ OneConditionPerKey(boundaryConditions)
       /\ \A boundaryKey \in BoundaryKeys, condition \in Conditions :
              AssignedIn(boundaryConditions,
                         SetProperty(boundaryConditions, boundaryKey, condition),
                         boundaryKey, condition)
       /\ boundaryConditions' # boundaryConditions =>
              \E boundaryKey \in BoundaryKeys, condition \in Conditions :
                  AssignedIn(boundaryConditions, boundaryConditions', boundaryKey, condition)
      ]_vars

\* Two keys hold a condition each: the key "left" was given before the key
\* "3" or after it, and each kept its own condition.
C15_Witness ==
    /\ Len(boundaryConditions) = 2
    /\ OneConditionPerKey(boundaryConditions)
    /\ KeySet(boundaryConditions) = {"3", "left"}
    /\ Lookup(boundaryConditions, "3") = <<"convection", 1, 20>>
    /\ Lookup(boundaryConditions, "left") = <<"constantTemp", 50>>

\* The system after imposeConvectionBoundaryConditions has gone through the
\* first k boundary keys, starting from the system sys.
RECURSIVE ConvectionThrough(_, _, _, _, _)
ConvectionThrough(sys, this, mesh, gauss, k) ==
    IF k = 0 THEN sys
    ELSE ImposeConvectionKey(ConvectionThrough(sys, this, mesh, gauss, k - 1), this, mesh, gauss,
                             ObjectKeys(this.boundaryConditions)[k])
\* The system after imposeConstantTempBoundaryConditions has gone through
\* the first k boundary keys, starting from the system sys.
RECURSIVE ConstantTempThrough(_, _, _)
ConstantTempThrough(sys, this, k) ==
    IF k = 0 THEN sys
    ELSE ImposeConstantTempKey(ConstantTempThrough(sys, this, k - 1), this,
                               ObjectKeys(this.boundaryConditions)[k])
\* The system one call of assembleSolidHeatTransferMat computes from zero
\* arrays for a mesh and the boundary conditions of this: the loop over the
\* elements, the convection terms, the constant temperatures.
SystemFromZero(config, this, mesh) ==
    ConstantTempThrough(
        ConvectionThrough(AssembledSystems[config], this, mesh,
                          getGaussPointsAndWeights(Field(config, "elementOrder", Undefined)),
                          Len(this.boundaryConditions)),
        this, Len(this.boundaryConditions))
\* The system a call computes from the configuration of the model alone.
SystemOfModel(config, conditions, mesh) ==
    SystemFromZero(config,
        ThermalBoundaryConditions(conditions, mesh.boundaryElements, mesh.nodalNumbering,
                                  Field(config, "meshDimension", Undefined),
                                  Field(config, "elementOrder", Undefined)),
        mesh)

\* The state holds the vector and the matrix of the system sys.
HoldsSystem(sys) ==
    /\ residualVector = sys.residualVector
    /\ jacobianMatrix = sys.jacobianMatrix

\* An earlier call of solve was made on the configuration the model has
\* now, and the assembler returned to it.
EarlierCallOnConfiguration == DOMAIN previousAssembly # {}

\* C16: when the assembler has returned to a call of solve that follows an
\* earlier call on the same model with the configuration unchanged, the
\* jacobianMatrix, residualVector and nodesCoordinates it returned are
\* identical to those it returned to the earlier call; and in every call,
\* whatever calls on other configurations returned or threw before, they
\* are those computed from zero arrays for the configuration of the model:
\* no value an earlier call accumulated or overwrote is in the arrays of a
\* later one.
C16_SolveIsStateless ==
    /\ (AssemblyReturned /\ EarlierCallOnConfiguration) =>
           AssemblyOfCall = previousAssembly
    /\ AssemblyReturned =>
           /\ HoldsSystem(SystemOfModel(meshConfig, boundaryConditions,
                                        generateMesh(meshGeneration(meshConfig))))
           /\ ReturnedCoordinates.nodesXCoordinates =
                  generateMesh(meshGeneration(meshConfig)).nodesXCoordinates
           /\ ReturnedCoordinates.nodesYCoordinates =
                  generateMesh(meshGeneration(meshConfig)).nodesYCoordinates

\* The assembler has returned to a second call of solve on an unchanged
\* configuration with a convection and a constant-temperature boundary:
\* both calls accumulated convection terms on the matrix of the loop over
\* the elements and overwrote rows of it.
C16_Witness ==
    /\ AssemblyReturned
    /\ EarlierCallOnConfiguration
    /\ \E k1, k2 \in 1..Len(boundaryConditions) :
           /\ boundaryConditions[k1][2][1] = "convection"
           /\ boundaryConditions[k2][2][1] = "constantTemp"
           /\ IsIndexKey(boundaryConditions[k1][1]) /\ IsIndexKey(boundaryConditions[k2][1])
    /\ previousAssembly.jacobianMatrix # AssembledSystems[meshConfig].jacobianMatrix
    /\ jacobianMatrix # AssembledSystems[meshConfig].jacobianMatrix

\* The vector has n entries and the matrix n rows of n entries.
HasDimension(vector, matrix, n) ==
    /\ DOMAIN vector = 0..(n - 1)
    /\ DOMAIN matrix = 0..(n - 1)
    /\ \A rowIndex \in DOMAIN matrix : DOMAIN matrix[rowIndex] = 0..(n - 1)

\* C17: when the loop over the elements is about to start, residualVector
\* is an array of totalNodes zeros and jacobianMatrix an array of
\* totalNodes rows of totalNodes zeros, where totalNodes = totalNodesX *
\* totalNodesY is the number of node coordinates of the mesh; the system
\* the assembler returns has the same dimensions, and the system handed
\* to math.lusolve has one row per returned node coordinate.
C17_ZeroInitialised ==
    /\ (pc = "assembly" /\ ~NoFirstRow(nodesCoordinatesAndNumbering.nodalNumbering)) =>
           /\ HasDimension(residualVector, jacobianMatrix,
                           ArrLen(nodesCoordinatesAndNumbering.nodesXCoordinates))
           /\ ArrLen(nodesCoordinatesAndNumbering.nodesYCoordinates) = ArrLen(residualVector)
           /\ Mul(nodesCoordinatesAndNumbering.totalNodesX,
                  nodesCoordinatesAndNumbering.totalNodesY) = Num(ArrLen(residualVector))
           /\ \A nodeIndex \in DOMAIN residualVector :
                  /\ residualVector[nodeIndex] = Num(0)
                  /\ \A colIndex \in DOMAIN residualVector :
                         jacobianMatrix[nodeIndex][colIndex] = Num(0)
    /\ AssemblyReturned =>
           HasDimension(residualVector, jacobianMatrix,
                        ArrLen(nodesCoordinatesAndNumbering.nodesXCoordinates))
    /\ (outcome = "returned" /\ solverConfig = "solidHeatTransferScript"
            /\ solverMethod = "lusolve") =>
           HasDimension(solutionVector[3], solutionVector[2],
                        ArrLen(nodesCoordinates.nodesXCoordinates))

\* The loop over the two elements of a mesh of 15 nodes is about to start
\* on 15 zeros and 15 rows of 15 zeros.
C17_Witness ==
    /\ pc = "assembly" /\ ~NoFirstRow(nodesCoordinatesAndNumbering.nodalNumbering)
    /\ meshConfig.numElementsX = 2
    /\ HasDimension(residualVector, jacobianMatrix, 15)
    /\ ArrLen(nodesCoordinatesAndNumbering.nodesXCoordinates) = 15
    /\ \A nodeIndex, colIndex \in 0..14 :
           residualVector[nodeIndex] = Num(0) /\ jacobianMatrix[nodeIndex][colIndex] = Num(0)

(***************************************************************************)
(* The basis functions and the Gauss rule on their own: an object of class *)
(* basisFunctions or numericalIntegration is built from meshConfig =       *)
(* {meshDimension, elementOrder} and its method is called; the natural     *)
(* coordinates of a call of getBasisFunctions are held in nodesCoordinates *)
(* (eta = Null for a call without eta), the value returned in              *)
(* solutionVector.                                                         *)
(***************************************************************************)
\* The points k / GridSize of [0,1] are drawn as coordinates.
GridSize == 4
\* The grid points and the Gauss points of the quadratic rule.
ReferencePoints ==
    {Frac(k, GridSize) : k \in 0..GridSize}
    \cup {getGaussPointsAndWeights("quadratic").gaussPoints[g] : g \in 0..2}

InitMethods ==
    /\ solverConfig = Null
    /\ meshConfig \in [meshDimension : {"1D", "2D"}, elementOrder : {"linear", "quadratic"}]
    /\ boundaryConditions = <<>>
    /\ solverMethod = "lusolve"
    /\ pc = "methods"
    /\ nodesCoordinatesAndNumbering = EmptyObject
    /\ residualVector = EmptyArr
    /\ jacobianMatrix = EmptyArr
    /\ detJacobian = Undefined
    /\ boundaryIndex = 0
    /\ solutionVector = EmptyArr
    /\ \/ nodesCoordinates \in [ksi : ReferencePoints, eta : ReferencePoints]
       \/ nodesCoordinates \in [ksi : ReferencePoints, eta : {Null}]
    /\ outcome = "none"
    /\ previousAssembly = EmptyObject

\* new basisFunctions(meshConfig).getBasisFunctions(ksi, eta), or
\* getBasisFunctions(ksi) when eta = Null: the method returns.
getBasisFunctionsCall ==
    /\ pc = "methods"
    /\ solutionVector' = getBasisFunctions(meshConfig.meshDimension, meshConfig.elementOrder,
                                           nodesCoordinates.ksi, nodesCoordinates.eta)
    /\ pc' = "basisFunctionsReturned"
    /\ outcome' = "returned"
    /\ UNCHANGED <<model, locals, nodesCoordinates, previousAssembly>>

\* new numericalIntegration(meshConfig).getGaussPointsAndWeights()
getGaussPointsAndWeightsCall ==
    /\ pc = "methods"
    /\ solutionVector' = getGaussPointsAndWeights(meshConfig.elementOrder)
    /\ pc' = "gaussReturned"
    /\ outcome' = "returned"
    /\ UNCHANGED <<model, locals, nodesCoordinates, previousAssembly>>

NextMethods ==
    \/ getBasisFunctionsCall
    \/ getGaussPointsAndWeightsCall

SpecMethods == InitMethods /\ [][NextMethods]_vars

(***************************************************************************)
(* Properties of the basis functions and of the Gauss rule.                *)
(***************************************************************************)
\* getBasisFunctions has returned for a call with the coordinates its
\* dimension needs.
BasisFunctionsReturned ==
    /\ pc = "basisFunctionsReturned"
    /\ meshConfig.meshDimension = "2D" => nodesCoordinates.eta # Null
\* The sum of the entries of an array of numbers.
ArrSum(a) == SumNums([k \in 1..ArrLen(a) |-> a[k - 1]])
\* The number of basis functions of an element.
NumBasisFunctions(meshDimension, elementOrder) ==
    IF meshDimension = "1D" THEN (IF elementOrder = "linear" THEN 2 ELSE 3)
    ELSE (IF elementOrder = "linear" THEN 4 ELSE 9)

\* C18: for the linear and the quadratic elements in 1D and in 2D, the
\* values of the basis functions getBasisFunctions returns at a point of
\* the reference element, one per node of the element, sum to 1.
C18_PartitionOfUnity ==
    BasisFunctionsReturned =>
        /\ ArrLen(solutionVector.basisFunction) =
               NumBasisFunctions(meshConfig.meshDimension, meshConfig.elementOrder)
        /\ ArrSum(solutionVector.basisFunction) = Num(1)

\* The nine basis functions of the 2D quadratic element at (1/4, 3/4):
\* some are negative, and they sum to 1.
C18_Witness ==
    /\ BasisFunctionsReturned
    /\ meshConfig = [meshDimension |-> "2D", elementOrder |-> "quadratic"]
    /\ nodesCoordinates = [ksi |-> Frac(1, 4), eta |-> Frac(3, 4)]
    /\ ArrLen(solutionVector.basisFunction) = 9
    /\ solutionVector.basisFunction[0] = Frac(-3, 64)
    /\ ArrSum(solutionVector.basisFunction) = Num(1)

\* getGaussPointsAndWeights has returned.
GaussReturned == pc = "gaussReturned"
\* x is smaller than y.
Less(x, y) == Sign(Sub(y, x)) = 1

\* C19: getGaussPointsAndWeights returns as many weights as points, 1 for
\* the linear and 3 for the quadratic rule, and the weights sum to 1; the
\* quadratic rule lists its points in increasing order with the weights
\* 5/18, 8/18, 5/18.
C19_GaussWeights ==
    GaussReturned =>
        /\ ArrLen(solutionVector.gaussWeights) = ArrLen(solutionVector.gaussPoints)
        /\ ArrLen(solutionVector.gaussPoints) =
               (IF meshConfig.elementOrder = "linear" THEN 1 ELSE 3)
        /\ ArrSum(solutionVector.gaussWeights) = Num(1)
        /\ meshConfig.elementOrder = "quadratic" =>
               /\ Less(solutionVector.gaussPoints[0], solutionVector.gaussPoints[1])
               /\ Less(solutionVector.gaussPoints[1], solutionVector.gaussPoints[2])
               /\ solutionVector.gaussWeights =
                      Arr(<<Frac(5, 18), Frac(8, 18), Frac(5, 18)>>)

\* The quadratic rule has been returned: three points around 1/2.
C19_Witness ==
    /\ GaussReturned
    /\ meshConfig.elementOrder = "quadratic"
    /\ ArrLen(solutionVector.gaussPoints) = 3
    /\ solutionVector.gaussPoints[1] = Frac(1, 2)
    /\ Less(Num(0), solutionVector.gaussPoints[0])
    /\ solutionVector.gaussWeights[1] = Frac(4, 9)

\* C20: a call getBasisFunctions(ksi) without eta on a 2D evaluator is
\* an error signalled to the caller: it does not return normally.
C20_MissingEtaIsError ==
    (/\ pc = "basisFunctionsReturned"
     /\ meshConfig.meshDimension = "2D"
     /\ nodesCoordinates.eta = Null) => outcome # "returned"

(***************************************************************************)
(* Properties of the constant temperatures on the sides of the rectangle.  *)
(***************************************************************************)
\* Node r of the generated mesh has its coordinate on a side of the
\* rectangle [0, maxX] x [0, maxY]: y = 0 (side 0), x = 0 (side 1),
\* y = maxY (side 2), x = maxX (side 3).
CoordinateOnSide(r, side) ==
    CASE side = 0 -> nodesCoordinatesAndNumbering.nodesYCoordinates[r] = Num(0)
      [] side = 1 -> nodesCoordinatesAndNumbering.nodesXCoordinates[r] = Num(0)
      [] side = 2 -> nodesCoordinatesAndNumbering.nodesYCoordinates[r] = Num(meshConfig.maxY)
      [] side = 3 -> nodesCoordinatesAndNumbering.nodesXCoordinates[r] = Num(meshConfig.maxX)
\* The nodes of the generated mesh on a side of the rectangle.
MeshNodesOnSide(side) == {r \in DOMAIN residualVector : CoordinateOnSide(r, side)}
\* The step of imposeConstantTempBoundaryConditions for the boundary key at
\* position boundaryIndex, a side of a rectangle that carries a constant
\* temperature, is being taken.
ConstantTempSideStep ==
    /\ pc = "constantTemp" /\ pc' = "constantTemp"
    /\ boundaryIndex' = boundaryIndex + 1
    /\ Has(meshConfig, "maxY")
    /\ IsIndexKey(boundaryConditions[boundaryIndex][1])
    /\ boundaryConditions[boundaryIndex][2][1] = "constantTemp"

\* C21: on a 2D quadratic structured mesh, the nodes overwritten for a
\* constantTemp condition on side s are exactly the mesh nodes whose
\* coordinate lies on that side: totalNodesX nodes for the bottom and the
\* top, totalNodesY nodes for the left and the right; each of them gets
\* the value and the identity row, and no other row is touched.
C21_ConstrainedNodesOnSide ==
    [][ConstantTempSideStep =>
          /\ Num(Cardinality(MeshNodesOnSide(KeyIndex(boundaryConditions[boundaryIndex][1])))) =
                 (IF KeyIndex(boundaryConditions[boundaryIndex][1]) \in {0, 2}
                  THEN nodesCoordinatesAndNumbering.totalNodesX
                  ELSE nodesCoordinatesAndNumbering.totalNodesY)
          /\ \A r \in DOMAIN residualVector :
                 IF r \in MeshNodesOnSide(KeyIndex(boundaryConditions[boundaryIndex][1]))
                 THEN /\ residualVector'[r] = Num(boundaryConditions[boundaryIndex][2][2])
                      /\ \A colIndex \in DOMAIN residualVector :
                             jacobianMatrix'[r][colIndex] =
                                 IF colIndex = r THEN Num(1) ELSE Num(0)
                 ELSE /\ residualVector'[r] = residualVector[r]
                      /\ jacobianMatrix'[r] = jacobianMatrix[r]
      ]_vars

\* The constant temperature of the bottom side of a mesh of two elements
\* has been imposed: the five nodes with y = 0 hold the value and the
\* identity row, the ten other rows are the rows the element loop left,
\* and an interior node still couples to its neighbours.
C21_Witness ==
    /\ pc = "constantTemp" /\ boundaryIndex = 2
    /\ Has(meshConfig, "maxY") /\ meshConfig.numElementsX = 2
    /\ boundaryConditions[1] = <<"0", <<"constantTemp", 100>>>>
    /\ Cardinality(MeshNodesOnSide(0)) = 5
    /\ \A r \in MeshNodesOnSide(0) : residualVector[r] = Num(100) /\ IdentityRow(r)
    /\ \A r \in DOMAIN residualVector \ MeshNodesOnSide(0) :
           /\ jacobianMatrix[r] = AssembledSystems[meshConfig].jacobianMatrix[r]
           /\ ~IdentityRow(r)

(***************************************************************************)
(* The boundary conditions on their own: a ThermalBoundaryConditions       *)
(* object is built for a mesh of one element and its two methods are       *)
(* called on a vector and a matrix whose entries are all different.        *)
(***************************************************************************)
\* The mesh of one element on [0, maxX] x [0, maxY]: the generated mesh of
\* a quadratic element; for a linear element, whose mesh the generator
\* does not number, the four corners in the local order of the basis
\* functions (node 2a + b at (a maxX, b maxY)), one list per side.
OneElementMesh(config) ==
    IF config.elementOrder = "quadratic" THEN generateMesh(meshGeneration(config))
    ELSE [nodesXCoordinates |-> Arr(<<Num(0), Num(0), Num(config.maxX), Num(config.maxX)>>),
          nodesYCoordinates |-> Arr(<<Num(0), Num(config.maxY), Num(0), Num(config.maxY)>>),
          totalNodesX       |-> Num(2),
          totalNodesY       |-> Num(2),
          nodalNumbering    |-> Arr(<<Arr(<<1, 2, 3, 4>>)>>),
          boundaryElements  |-> Eager([sideIndex \in 0..(maxSides - 1) |->
                                          Arr(<<<<0, sideIndex>>>>)])]
\* A vector of n entries and a matrix of n rows of n entries, all different
\* and none 0 or 1.
DenseSystem(n) ==
    [residualVector |-> Eager([r \in 0..(n - 1) |-> Num(r + 2)]),
     jacobianMatrix |-> Eager([r \in 0..(n - 1) |->
                            Eager([c \in 0..(n - 1) |-> Num(n * (r + 1) + c + 2)])]),
     detJacobian    |-> Undefined]
\* The boundary-condition objects with 1..MaxBoundaries of the keys
\* '0'..'3', in the order of Object.keys.
SideConditions ==
    {obj \in UNION {[1..n -> {IndexKeys[i] : i \in 1..Len(IndexKeys)} \X Conditions] :
                        n \in 1..MaxBoundaries} :
        \A i \in 1..(Len(obj) - 1) : KeyIndex(obj[i][1]) < KeyIndex(obj[i + 1][1])}

InitBoundary ==
    /\ solverConfig = Null
    /\ meshConfig \in [meshDimension : {"2D"}, elementOrder : {"linear", "quadratic"},
                        numElementsX : {1}, numElementsY : {1},
                        maxX : 1..MaxLength, maxY : {1}]
    /\ boundaryConditions \in SideConditions
    /\ solverMethod = "lusolve"
    /\ pc = "boundaryConditions"
    /\ nodesCoordinatesAndNumbering = OneElementMesh(meshConfig)
    /\ residualVector = DenseSystem(LoopEnd(TotalNodes(nodesCoordinatesAndNumbering))).residualVector
    /\ jacobianMatrix = DenseSystem(LoopEnd(TotalNodes(nodesCoordinatesAndNumbering))).jacobianMatrix
    /\ detJacobian = Undefined
    /\ boundaryIndex = 0
    /\ solutionVector = EmptyArr
    /\ nodesCoordinates = EmptyObject
    /\ outcome = "none"
    /\ previousAssembly = EmptyObject

\* imposeConvectionBoundaryConditions(residualVector, jacobianMatrix, ...)
imposeConvectionCall ==
    /\ pc = "boundaryConditions"
    /\ SetSystem(ConvectionThrough(Sys, thermalBoundaryConditions, nodesCoordinatesAndNumbering,
                                   getGaussPointsAndWeights(meshConfig.elementOrder),
                                   Len(boundaryConditions)))
    /\ pc' = "convectionImposed"
    /\ UNCHANGED <<model, nodesCoordinatesAndNumbering, detJacobian, boundaryIndex, result, outcome, previousAssembly>>

\* imposeConstantTempBoundaryConditions(residualVector, jacobianMatrix), on
\* the arrays as given, after the convection terms, or a second time.
imposeConstantTempCall ==
    /\ pc \in {"boundaryConditions", "convectionImposed", "constantTempImposed"}
    /\ SetSystem(ConstantTempThrough(Sys, thermalBoundaryConditions, Len(boundaryConditions)))
    /\ pc' = IF pc = "constantTempImposed" THEN "constantTempImposedTwice"
             ELSE "constantTempImposed"
    /\ UNCHANGED <<model, nodesCoordinatesAndNumbering, detJacobian, boundaryIndex, result, outcome, previousAssembly>>

NextBoundary ==
    \/ imposeConvectionCall
    \/ imposeConstantTempCall

SpecBoundary == InitBoundary /\ [][NextBoundary]_vars

(***************************************************************************)
(* Properties of the two imposers on one element.                          *)
(***************************************************************************)
\* The local nodes the loops of the convection imposer visit on a side.
ConvectionLocalNodes(elementOrder, side) ==
    {LoopNodes(ConvectionSide(elementOrder, side, Num(0)).firstNodeIndex,
               ConvectionSide(elementOrder, side, Num(0)).lastNodeIndex,
               ConvectionSide(elementOrder, side, Num(0)).nodeIncrement)[i] :
        i \in 1..Len(LoopNodes(ConvectionSide(elementOrder, side, Num(0)).firstNodeIndex,
                               ConvectionSide(elementOrder, side, Num(0)).lastNodeIndex,
                               ConvectionSide(elementOrder, side, Num(0)).nodeIncrement))}
\* The local nodes the constant-temperature imposer lists for a side.
DirichletLocalNodes(this, boundaryKey) ==
    {BoundarySides(this, boundaryKey)[i] : i \in 1..Len(BoundarySides(this, boundaryKey))}

\* C22: for each side and both element orders, the local nodes the loops
\* of the convection imposer visit are the local nodes the constant
\* temperature imposer lists for the side (quadratic {0,3,6}, {0,1,2},
\* {2,5,8}, {6,7,8}; linear {0,2}, {0,1}, {1,3}, {2,3}), and the residual
\* entry of each of them has received the convection term.
C22_ConvectionVisitsSideNodes ==
    pc = "convectionImposed" =>
        \A k \in 1..Len(boundaryConditions) :
            boundaryConditions[k][2][1] = "convection" =>
                /\ ConvectionLocalNodes(meshConfig.elementOrder,
                                        KeyIndex(boundaryConditions[k][1])) =
                       DirichletLocalNodes(thermalBoundaryConditions, boundaryConditions[k][1])
                /\ \A n \in DirichletLocalNodes(thermalBoundaryConditions,
                                                 boundaryConditions[k][1]) :
                       residualVector[nodesCoordinatesAndNumbering.nodalNumbering[0][n] - 1] #
                           Num(nodesCoordinatesAndNumbering.nodalNumbering[0][n] + 1)

(***************************************************************************)
(* Properties of the nodal numbering of the quadratic meshes.              *)
(***************************************************************************)
\* generateMesh has returned the mesh of a 2D quadratic configuration.
QuadraticMeshGenerated ==
    /\ pc = "meshGenerated"
    /\ meshConfig.meshDimension = "2D"
    /\ meshConfig.elementOrder = "quadratic"
\* The global node ids row e of NOP holds at the given local indices.
NopIds(e, localIndices) ==
    {nodesCoordinatesAndNumbering.nodalNumbering[e][i] : i \in localIndices}
\* The column and the row of element e in the grid of elements.
ElementColumn(e) == e \div meshConfig.numElementsY
ElementRow(e) == e % meshConfig.numElementsY
\* The 1-based ids two different elements must share: the three nodes of
\* the common edge of edge neighbours, the common corner of diagonal
\* neighbours, none otherwise.
SharedIds(e1, e2) ==
    LET dx == ElementColumn(e2) - ElementColumn(e1)
        dy == ElementRow(e2) - ElementRow(e1)
    IN  CASE dx = 1 /\ dy = 0   -> NopIds(e1, {6, 7, 8})
          [] dx = -1 /\ dy = 0  -> NopIds(e1, {0, 1, 2})
          [] dx = 0 /\ dy = 1   -> NopIds(e1, {2, 5, 8})
          [] dx = 0 /\ dy = -1  -> NopIds(e1, {0, 3, 6})
          [] dx = 1 /\ dy = 1   -> NopIds(e1, {8})
          [] dx = 1 /\ dy = -1  -> NopIds(e1, {6})
          [] dx = -1 /\ dy = 1  -> NopIds(e1, {2})
          [] dx = -1 /\ dy = -1 -> NopIds(e1, {0})
          [] OTHER -> {}

\* C23: in the NOP of a 2D quadratic mesh every entry is an id in
\* 1..totalNodesX*totalNodesY, the nine ids of an element are pairwise
\* distinct, every id appears in some element, and two different
\* elements share exactly the three nodes of their common edge when they
\* are edge neighbours, exactly their common corner when they are
\* diagonal neighbours, and no node otherwise.
C23_NodalNumberingConsistent ==
    QuadraticMeshGenerated =>
        LET elements == 0..(meshConfig.numElementsX * meshConfig.numElementsY - 1)
            ids == 1..((2 * meshConfig.numElementsX + 1) * (2 * meshConfig.numElementsY + 1))
        IN  /\ DOMAIN nodesCoordinatesAndNumbering.nodalNumbering = elements
            /\ \A e \in elements :
                   /\ DOMAIN nodesCoordinatesAndNumbering.nodalNumbering[e] = 0..8
                   /\ NopIds(e, 0..8) \subseteq ids
                   /\ Cardinality(NopIds(e, 0..8)) = 9
            /\ ids = UNION {NopIds(e, 0..8) : e \in elements}
            /\ \A e1, e2 \in elements :
                   e1 # e2 =>
                       /\ NopIds(e1, 0..8) \cap NopIds(e2, 0..8) = SharedIds(e1, e2)
                       /\ Cardinality(SharedIds(e1, e2)) =
                              (CASE Abs(ElementColumn(e2) - ElementColumn(e1))
                                        + Abs(ElementRow(e2) - ElementRow(e1)) = 1 -> 3
                                 [] /\ Abs(ElementColumn(e2) - ElementColumn(e1)) = 1
                                    /\ Abs(ElementRow(e2) - ElementRow(e1)) = 1 -> 1
                                 [] OTHER -> 0)

\* The mesh of 3 x 2 elements: elements 0 and 2 are edge neighbours and
\* share three nodes, elements 0 and 3 are diagonal neighbours and share
\* one, elements 0 and 4 are two columns apart and share none.
C23_Witness ==
    /\ QuadraticMeshGenerated
    /\ meshConfig.numElementsX = 3 /\ meshConfig.numElementsY = 2
    /\ NopIds(0, 0..8) \cap NopIds(2, 0..8) = {11, 12, 13}
    /\ NopIds(0, 0..8) \cap NopIds(3, 0..8) = {13}
    /\ NopIds(0, 0..8) \cap NopIds(4, 0..8) = {}
    /\ nodesCoordinatesAndNumbering.nodalNumbering[5][8] = 35

\* The coordinate at offset a half steps from the start of element column
\* (or row) index, for the elements of size max / numElements.
HalfStepCoordinate(index, a, max, numElements) ==
    Add(Mul(Num(index), Frac(max, numElements)),
        Mul(Num(a), Div(Frac(max, numElements), Num(2))))

\* C24: the local order of the quadratic 2D basis functions is the local
\* order of NOP: for a, b in 0..2 the node NOP holds at local index
\* 3a + b of an element is the mesh node at offset (a deltaX / 2,
\* b deltaY / 2) from the lower-left corner of the element, and at the
\* reference point (a / 2, b / 2) basis function 3a + b is 1 and the
\* eight others are 0.
C24_LocalOrderAgrees ==
    QuadraticMeshGenerated =>
        \A e \in DOMAIN nodesCoordinatesAndNumbering.nodalNumbering :
            \A a, b \in 0..2 :
                /\ nodesCoordinatesAndNumbering.nodesXCoordinates[
                        nodesCoordinatesAndNumbering.nodalNumbering[e][3 * a + b] - 1] =
                       HalfStepCoordinate(ElementColumn(e), a, meshConfig.maxX,
                                          meshConfig.numElementsX)
                /\ nodesCoordinatesAndNumbering.nodesYCoordinates[
                        nodesCoordinatesAndNumbering.nodalNumbering[e][3 * a + b] - 1] =
                       HalfStepCoordinate(ElementRow(e), b, meshConfig.maxY,
                                          meshConfig.numElementsY)
                /\ \A i \in 0..8 :
                       getBasisFunctions("2D", "quadratic", Frac(a, 2), Frac(b, 2)).basisFunction[i] =
                           (IF i = 3 * a + b THEN Num(1) ELSE Num(0))

\* The mesh of 2 x 2 elements on [0, 2] x [0, 1]: local node 5 (a = 1,
\* b = 2) of the last element is global node 20 at (3/2, 1), and basis
\* function 5 is 1 at (1/2, 1).
C24_Witness ==
    /\ QuadraticMeshGenerated
    /\ meshConfig.numElementsX = 2 /\ meshConfig.numElementsY = 2
    /\ meshConfig.maxX = 2 /\ meshConfig.maxY = 1
    /\ nodesCoordinatesAndNumbering.nodalNumbering[3][5] = 20
    /\ nodesCoordinatesAndNumbering.nodesXCoordinates[19] = Frac(3, 2)
    /\ nodesCoordinatesAndNumbering.nodesYCoordinates[19] = Num(1)
    /\ getBasisFunctions("2D", "quadratic", Frac(1, 2), Num(1)).basisFunction[5] = Num(1)

\* Node r lies on a side that carries a constantTemp condition.
OnConstantTempSide(r) ==
    \E k \in 1..Len(boundaryConditions) :
        /\ boundaryConditions[k][2][1] = "constantTemp"
        /\ CoordinateOnSide(r, KeyIndex(boundaryConditions[k][1]))
\* A call of imposeConstantTempBoundaryConditions is being made.
ConstantTempCalled ==
    pc' # pc /\ pc' \in {"constantTempImposed", "constantTempImposedTwice"}

\* C25: imposeConstantTempBoundaryConditions changes only the rows of the
\* nodes on constantTemp boundaries: for every other node r,
\* residualVector[r] and the whole row jacobianMatrix[r] are unchanged,
\* the entries jacobianMatrix[r][i] in the columns of constrained nodes i
\* included.
C25_ConstantTempFrame ==
    [][ConstantTempCalled =>
          /\ DOMAIN residualVector' = DOMAIN residualVector
          /\ DOMAIN jacobianMatrix' = DOMAIN jacobianMatrix
          /\ \A r \in DOMAIN residualVector :
                 ~OnConstantTempSide(r) =>
                     /\ residualVector'[r] = residualVector[r]
                     /\ jacobianMatrix'[r] = jacobianMatrix[r]
      ]_vars

\* The bottom side of a quadratic element has been given the constant
\* temperature 100: node 0 has the identity row, and the row of node 1,
\* which is not on the side, still holds its entry 20 in column 0.
C25_Witness ==
    /\ pc = "constantTempImposed"
    /\ meshConfig.elementOrder = "quadratic"
    /\ boundaryConditions = <<<<"0", <<"constantTemp", 100>>>>>>
    /\ OnConstantTempSide(0) /\ ~OnConstantTempSide(1)
    /\ IdentityRow(0) /\ residualVector[0] = Num(100)
    /\ jacobianMatrix[1][0] = Num(20)
    /\ residualVector[1] = Num(3)

(***************************************************************************)
(* Properties of the corner nodes of two constant temperatures.            *)
(***************************************************************************)
\* The positions k1 < k2 of two conditions given on the sides '0'..'3'.
SidePositionPairs ==
    {p \in (1..Len(boundaryConditions)) \X (1..Len(boundaryConditions)) :
        /\ p[1] < p[2]
        /\ IsIndexKey(boundaryConditions[p[1]][1])
        /\ IsIndexKey(boundaryConditions[p[2]][1])}
\* The nodes two sides share: the corner of adjacent sides.
CornerNodes(config, side1, side2) == NodesOnSide(config, side1) \cap NodesOnSide(config, side2)

\* C26: the keys '0'..'3' of the boundary conditions are held in
\* ascending numeric order whatever the order of the calls of
\* addBoundaryCondition, and when two adjacent sides carry constantTemp
\* conditions the corner node they share ends, in the system the
\* assembler returns, with the identity row and with the value of the
\* side of the greater number, which is processed last.
C26_CornerTakesLastKey ==
    /\ \A p \in SidePositionPairs :
           KeyIndex(boundaryConditions[p[1]][1]) < KeyIndex(boundaryConditions[p[2]][1])
    /\ AssemblyReturned =>
           \A k1, k2 \in 1..Len(boundaryConditions) :
               (/\ boundaryConditions[k1][2][1] = "constantTemp"
                /\ boundaryConditions[k2][2][1] = "constantTemp"
                /\ KeyIndex(boundaryConditions[k1][1]) < KeyIndex(boundaryConditions[k2][1])) =>
                   \A node \in CornerNodes(meshConfig, KeyIndex(boundaryConditions[k1][1]),
                                            KeyIndex(boundaryConditions[k2][1])) :
                       /\ IdentityRow(node)
                       /\ residualVector[node] = Num(boundaryConditions[k2][2][2])

\* The bottom side carries 50 and the left side 100: their corner, node
\* 0, ends with the identity row and 100, the other nodes of the bottom
\* side with 50.
C26_Witness ==
    /\ AssemblyReturned
    /\ boundaryConditions = <<<<"0", <<"constantTemp", 50>>>>, <<"1", <<"constantTemp", 100>>>>>>
    /\ CornerNodes(meshConfig, 0, 1) = {0}
    /\ IdentityRow(0)
    /\ residualVector[0] = Num(100)
    /\ residualVector[3] = Num(50)

(***************************************************************************)
(* Properties of the loop over the elements.                               *)
(***************************************************************************)
\* The loop over the elements has ended and no boundary condition has been
\* imposed yet.
ElementsAssembled == pc = "convection" /\ boundaryIndex = 1
\* The elements whose row of NOP holds both global nodes m and n (0-based).
ElementsHolding(m, n) ==
    {e \in DOMAIN nodesCoordinatesAndNumbering.nodalNumbering :
        /\ \E i \in DOMAIN nodesCoordinatesAndNumbering.nodalNumbering[e] :
               nodesCoordinatesAndNumbering.nodalNumbering[e][i] - 1 = m
        /\ \E i \in DOMAIN nodesCoordinatesAndNumbering.nodalNumbering[e] :
               nodesCoordinatesAndNumbering.nodalNumbering[e][i] - 1 = n}
\* The number of pairs of Gauss points of the rule of the configuration.
GaussPointPairs ==
    ArrLen(getGaussPointsAndWeights(meshConfig.elementOrder).gaussPoints)
        * ArrLen(getGaussPointsAndWeights(meshConfig.elementOrder).gaussPoints)

\* C27: after the loop over the elements and before the boundary
\* conditions, jacobianMatrix[m][n] has received a contribution only if
\* an element holds both m and n: the entry of a pair that shares no
\* element is exactly 0, and the entry of a pair that shares k elements
\* has received k times the number of pairs of Gauss points
\* contributions.
C27_ContributionsFollowElements ==
    ElementsAssembled =>
        \A m, n \in DOMAIN jacobianMatrix :
            /\ AssembledSystems[meshConfig].jacobianContributions[m][n] =
                   Cardinality(ElementsHolding(m, n)) * GaussPointPairs
            /\ ElementsHolding(m, n) = {} => jacobianMatrix[m][n] = Num(0)

\* The mesh of two elements: nodes 0 and 14 share no element and their
\* entry is 0; nodes 6 and 7, on the common edge, share both elements and
\* their entry has received 18 contributions; nodes 0 and 1 share one
\* element and their entry, not 0, has received 9.
C27_Witness ==
    /\ ElementsAssembled
    /\ Has(meshConfig, "maxY") /\ meshConfig.numElementsX = 2
    /\ ElementsHolding(0, 14) = {} /\ jacobianMatrix[0][14] = Num(0)
    /\ AssembledSystems[meshConfig].jacobianContributions[0][14] = 0
    /\ ElementsHolding(6, 7) = {0, 1}
    /\ AssembledSystems[meshConfig].jacobianContributions[6][7] = 18
    /\ AssembledSystems[meshConfig].jacobianContributions[0][1] = 9
    /\ ~IsZero(jacobianMatrix[0][1]) /\ IsFinite(jacobianMatrix[0][1])

(***************************************************************************)
(* Properties of the object generateMesh returns.                          *)
(***************************************************************************)
\* C28: every mesh generateMesh returns carries nodalNumbering and
\* boundaryElements, and its totalNodesX * totalNodesY is the number of
\* node coordinates it returns.
C28_MeshContract ==
    pc = "meshGenerated" =>
        /\ Has(nodesCoordinatesAndNumbering, "nodalNumbering")
        /\ Has(nodesCoordinatesAndNumbering, "boundaryElements")
        /\ TotalNodes(nodesCoordinatesAndNumbering) =
               Num(ArrLen(nodesCoordinatesAndNumbering.nodesXCoordinates))

(***************************************************************************)
(* Properties of solve and the model.                                      *)
(***************************************************************************)
\* The step belongs to a call of solve: it starts the call, continues it,
\* or ends it by a return or a throw.
StepOfSolve == pc # "idle" \/ pc' # "idle" \/ outcome' # "none"
\* The number of fields of the model the step changes.
FieldsChanged ==
    Cardinality({i \in 1..4 : model'[i] # model[i]})

\* C29: no step of solve modifies the model: solverConfig, meshConfig,
\* boundaryConditions and solverMethod hold the same values when solve
\* returns or throws as before the call; the model changes only by a
\* setter, called while no solve is running, which changes one field and
\* none of the locals of a call.
C29_SolveKeepsModel ==
    [][/\ StepOfSolve => model' = model
       /\ model' # model =>
              /\ pc = "idle" /\ pc' = "idle"
              /\ FieldsChanged = 1
              /\ locals' = locals
      ]_vars

\* solve has returned on a model with a mesh of two elements, a
\* convection and a constant temperature: the model still holds them.
C29_Witness ==
    /\ pc = "idle" /\ outcome = "returned"
    /\ solverConfig = "solidHeatTransferScript"
    /\ solverMethod = "lusolve"
    /\ Has(meshConfig, "maxY") /\ meshConfig.numElementsX = 2
    /\ boundaryConditions = <<<<"0", <<"constantTemp", 100>>>>, <<"2", <<"convection", 1, 20>>>>>>
    /\ DOMAIN solutionVector = 1..3
    /\ solutionVector[1] = "lusolve"

\* C30: imposeConstantTempBoundaryConditions is idempotent: called a
\* second time on the vector and the matrix it produced, it leaves both
\* as they are, whatever constantTemp conditions the sides carry.
C30_ConstantTempIdempotent ==
    [][(pc = "constantTempImposed" /\ pc' = "constantTempImposedTwice") =>
          /\ residualVector' = residualVector
          /\ jacobianMatrix' = jacobianMatrix
      ]_vars

\* The method has been called twice on a quadratic element whose bottom
\* side carries 100 and whose left side 50: the corner, node 0, holds 50
\* and the identity row, node 3 of the bottom side holds 100, and the row
\* of node 4, at the centre, is the row that was given.
C30_Witness ==
    /\ pc = "constantTempImposedTwice"
    /\ meshConfig.elementOrder = "quadratic"
    /\ boundaryConditions = <<<<"0", <<"constantTemp", 100>>>>, <<"1", <<"constantTemp", 50>>>>>>
    /\ IdentityRow(0) /\ residualVector[0] = Num(50)
    /\ IdentityRow(3) /\ residualVector[3] = Num(100)
    /\ jacobianMatrix[4] = DenseSystem(9).jacobianMatrix[4]

====
